---- MODULE Spec2Model ----
(***************************************************************************)
(* DevSys: the manager's file-backed task store (manager/app.py) and the   *)
(* deployment agent's poll loop (deployment-agent/worker.py).              *)
(*                                                                         *)
(* The filesystem is the shared state.  Every HTTP handler and every agent *)
(* iteration is a thread that walks through the file operations of its     *)
(* code, one filesystem call (or one run of reads) per step.               *)
(*                                                                         *)
(* deployment-agent/worker.py carries two over-indented try/except         *)
(* blocks (lines 65-68 and 222-225); they are read as the try/except they  *)
(* spell, at the indentation of the statement before them.                 *)
(***************************************************************************)
EXTENDS Integers, Sequences, FiniteSets, TLC

\* ------------------------------------------------------------------ bounds
MaxNow == 2
MaxRequests == 3
MaxIterations == 2
\* the entries of an acceptance list
MaxProbes == 2

\* ------------------------------------------------------------ identifiers
\* A task id is a string, modelled as the sequence of its characters.
NoId == <<>>
IdA == <<"a">>
IdB == <<"b", "-", "1">>
IdDash == <<"-">>
IdDot == <<"a", ".", "b">>
IdUp == <<".", ".", "/", "x">>
IdSlash == <<"a", "/", "b">>
IdDots == <<"a", ".", ".">>
Gen1 == <<"task", "-", "1">>
Gen2 == <<"task", "-", "2">>
\* uuid.uuid4().hex[:8] behind the "task-" prefix
GenIds == {Gen1, Gen2}
AllIds == {IdA, IdB, IdDash, IdDot, IdUp, IdSlash, IdDots, Gen1, Gen2}
AlnumChars == {"a", "b", "x", "1", "2", "task"}

\* str.replace(c, '')
RECURSIVE Remove(_, _)
Remove(s, c) ==
  IF s = <<>> THEN <<>>
  ELSE IF Head(s) = c THEN Remove(Tail(s), c)
  ELSE <<Head(s)>> \o Remove(Tail(s), c)

\* str.isalnum(): non-empty and every character alphanumeric
IsAlnum(s) == s # <<>> /\ \A k \in 1..Len(s) : s[k] \in AlnumChars

\* the check of create_task on the id
IdAccepted(id) == IsAlnum(Remove(Remove(id, "-"), "_"))

HasSlash(s) == \E k \in 1..Len(s) : s[k] = "/"
HasDotDot(s) == \E k \in 1..(Len(s) - 1) : s[k] = "." /\ s[k + 1] = "."

TaskPathOkNoDotDot(id) == ~(id = <<>> \/ HasSlash(id))

\* task_path raises ValidationError exactly when this is FALSE
TaskPathOk(id) == ~(id = <<>> \/ HasDotDot(id) \/ HasSlash(id))

\* ------------------------------------------------------------------ values
Statuses ==
  {"created", "in_progress", "completed", "ready_for_deploy", "deployed",
   "verified", "tested", "rolled_back", "failed"}
NoTime == -1
SecretNames == {"key"}
EnvName == ".env"
SecretFiles == SecretNames \cup {EnvName}

\* a file of secrets/: absent, the empty placeholder, or written values
NoSecrets == [n \in SecretFiles |-> "absent"]

NoMeta ==
  [kind |-> "none", id |-> NoId, title |-> "", status |-> "",
   created_at |-> NoTime, updated_at |-> NoTime, secrets |-> FALSE,
   secret_files |-> {}]
\* a meta.json that open(..., 'w') has truncated and json.dump has not yet
\* filled: json.load raises on it
PartialMeta == [NoMeta EXCEPT !.kind = "partial"]

\* acceptance probes: url is "" when the entry has no 'url' key, expect is
\* NoExpect when it has no 'should_respond' key
NoExpect == 0
NoUrlProbe == [url |-> "", expect |-> 200]
Probe200 == [url |-> "u", expect |-> 200]
Probe500 == [url |-> "u", expect |-> 500]
ProbeDefault == [url |-> "u", expect |-> NoExpect]
ProbeV500 == [url |-> "v", expect |-> 500]
AcceptanceLists ==
  {<<>>, <<Probe200>>, <<NoUrlProbe, Probe200>>, <<Probe500, Probe200>>}

NoDeployment == [present |-> FALSE, env |-> FALSE, secrets |-> {}]
SomeDeployment == [present |-> TRUE, env |-> TRUE, secrets |-> {"key"}]

\* What the request body says of the spec.  manifest: one of the keys
\* schemaVersion/name/slug is present; projValid/taskValid: the outcome of
\* jsonschema.validate against the project and the task schema; failsAt:
\* the instance a failed validation reports, the whole spec ("spec", as
\* for a missing required property) or a value outside the deployment
\* block ("field").
NoSpec ==
  [kind |-> "none", deploy |-> FALSE, acceptance |-> <<>>,
   deployment |-> NoDeployment, manifest |-> FALSE, slug |-> NoId,
   projValid |-> TRUE, taskValid |-> TRUE, failsAt |-> "field",
   project |-> FALSE, fixes |-> NoId]
PlainSpec(d, acc) == [NoSpec EXCEPT !.kind = "yaml", !.deploy = d, !.acceptance = acc]
ManifestSpec(slug, dpl) ==
  [NoSpec EXCEPT !.kind = "yaml", !.manifest = TRUE, !.slug = slug, !.deployment = dpl]

\* the spec of create_followup_task(task_id, reason): its title names the
\* task to fix
FollowupSpec(task_id) == [PlainSpec(FALSE, <<>>) EXCEPT !.fixes = task_id]

\* ---------------------------------------------------------------- threads
\* the clients of the manager, the deployment agents, the testing agent and
\* the coding agent
Clients == {"c1", "c2"}
Agents == {"d1", "d2"}
Testers == {"t1"}
Coders == {"g1"}
Threads == Clients \cup Agents \cup Testers \cup Coders
\* the threads that look at the response of a request: the clients, and the
\* coding agent through its ManagerClient
Callers == Clients \cup Coders
\* where a thread stands when its process has started
StartsAt(th) ==
  IF th \in Agents THEN "da_sleep"
  ELSE IF th \in Testers THEN "ta_sleep"
  ELSE IF th \in Coders THEN "ca_sleep"
  ELSE "idle"

\* The headers of a request that auth_required reads.  authorization is
\* the words of the Authorization header (<<>> when the header is absent,
\* <<"Bearer", "">> for 'Bearer ' and nothing more); x_api_token is "" when
\* the header is absent.
NoHeaders == [authorization |-> <<>>, x_api_token |-> ""]
Bearer(t) == [NoHeaders EXCEPT !.authorization = <<"Bearer", t>>]
XApiToken(t) == [NoHeaders EXCEPT !.x_api_token = t]

\* req is the request a response answers: the handler, the id it names,
\* the status it carries, its headers and whether they pass auth_required
NoReq ==
  [op |-> "", id |-> NoId, status |-> "", headers |-> NoHeaders,
   auth |-> FALSE]
NoRev == [ts |-> -1, sfx |-> ""]
\* files: the secret file names a body lists; tasks: the records of a task
\* list; echoed: the secret contents ("val": the env values and file
\* contents of the requests) that the text of the body repeats
NoResp ==
  [code |-> 0, error |-> "", id |-> NoId, status |-> "", rev |-> NoRev,
   files |-> {}, tasks |-> {}, echoed |-> {}, req |-> NoReq]
\* a deployment record.  verified is "unset" and code -1 until
\* check_acceptance has run: code is then the status code in
\* record['acceptance'], 0 for an error text, -1 for 'no_url_checks', and
\* url the address in it ("" for 'no_url_checks').  op
\* names the operation that wrote the record: it is not a key of the
\* record, every record the code writes comes from a deploy.
NoRec ==
  [task |-> NoId, timestamp |-> NoTime, path |-> "", verified |-> "unset",
   code |-> -1, url |-> "", op |-> ""]
\* deploy_records.json: list is what the file holds; last is the list it
\* held when it was last complete (history, not content)
NoRecords == [kind |-> "none", list |-> <<>>, last |-> <<>>]
\* a deploy_records.json truncated by open(..., 'w'): json.load raises on it
PartialRecords(f) == [kind |-> "partial", list |-> <<>>, last |-> f.last]
\* reports/ and test_records.json of a task: dir is whether reports/ exists,
\* files the seconds for which it holds a test-report-<timestamp>.txt, list
\* the entries of test_records.json (<<>> also when the file is absent)
NoTests == [dir |-> FALSE, files |-> {}, list |-> <<>>]
\* prev and before: what 'current' held and which revisions existed when
\* the operation began
LocInit ==
  [id |-> NoId, spec |-> NoSpec, meta |-> NoMeta, ret |-> "idle",
   todo |-> {}, rec |-> NoRec, recs |-> <<>>, ok |-> FALSE,
   target |-> NoRev, arg |-> NoRev, sleepAt |-> NoTime, prev |-> <<>>,
   before |-> {}, updated_files |-> {}, status |-> "", info |-> "",
   raised |-> ""]

VARIABLES
  now,            \* datetime.utcnow(), in seconds
  apiToken,       \* MANAGER_API_TOKEN: "" when not configured
  projectSchema,  \* PROJECT_SCHEMA is loaded
  taskSchema,     \* TASK_SCHEMA is loaded
  tasksRoot,      \* TASKS_DIR exists
  wsInit,         \* _workspace_initialized
  dirs,           \* the ids d for which the path TASKS_DIR/d is a directory
  specf,          \* TASKS_DIR/<id>/spec.yaml
  metaf,          \* TASKS_DIR/<id>/meta.json
  secf,           \* TASKS_DIR/<id>/secrets/
  srcf,           \* TASKS_DIR/<id>/src: 0 when absent, else its version
  recf,           \* TASKS_DIR/<id>/deploy_records.json
  testf,          \* TASKS_DIR/<id>/reports/ and test_records.json
  dep,            \* DEPLOY_DIR/<id>
  www,            \* WORKSPACE/www
  pc,             \* where each thread stands
  loc,            \* the local variables of each thread
  resp,           \* the last HTTP response each thread received
  solo,           \* operations run one after the other
  active,         \* the threads that run
  nreq,           \* client requests issued
  niter,          \* agent iterations started
  oplog,          \* per task, the last deploy-tree operations completed
  arch,           \* per task, each move of 'current' into revisions/
  shutdown_requested  \* the coding agent's shutdown flag

store == <<tasksRoot, dirs, specf, metaf, secf, srcf, recf, testf>>
config == <<apiToken, projectSchema, taskSchema, solo, active, shutdown_requested>>
vars ==
  <<now, apiToken, projectSchema, taskSchema, tasksRoot, wsInit, dirs, specf,
    metaf, secf, srcf, recf, testf, dep, www, pc, loc, resp, solo, active, nreq,
    niter, oplog, arch, shutdown_requested>>

\* --------------------------------------------------------------- deploy tree
\* The content of a deployed directory is the sequence of the source
\* versions it holds: its own files first, then those of a nested
\* subdirectory named 'current', and so on down.  <<>> is "no such directory".
Versions == {1, 2}
Suffixes == {"", "_rollback"}
RevNames == [ts : 0..(MaxNow + 1), sfx : Suffixes]
NoDeploy ==
  [exists |-> FALSE, revdir |-> FALSE, current |-> <<>>, current_tmp |-> <<>>,
   restored_tmp |-> <<>>, revs |-> [r \in RevNames |-> <<>>]]

\* strftime('%Y%m%dT%H%M%SZ') [+ '_rollback'] compared as strings: the
\* timestamps have one width, so a name is a proper prefix of its _rollback
RevLess(a, b) == a.ts < b.ts \/ (a.ts = b.ts /\ a.sfx = "" /\ b.sfx = "_rollback")

\* os.listdir(revisions_dir)
RevList(d) == {r \in RevNames : d.revs[r] # <<>>}
\* sorted(...)[-1]
LastRev(d) == CHOOSE r \in RevList(d) : \A q \in RevList(d) : q = r \/ RevLess(q, r)

\* shutil.move(src, dst) of a directory: a rename when dst does not exist;
\* into dst, as dst/current, when dst is a directory; shutil.Error when
\* dst/current exists already
MoveRaises(dst) == Len(dst) > 1
MoveDropsSource(content, dst) == dst
MoveResult(content, dst) == IF dst = <<>> THEN content ELSE dst \o content

\* ----------------------------------------------------------------- threads
Parked == {"idle", "da_sleep", "da_down", "ta_sleep", "ca_sleep", "ca_exit"}
CanStep(th) ==
  /\ th \in active
  /\ solo => \A o \in active \ {th} : pc[o] \in Parked

RequestTokenBearerOnly(headers) ==
  LET auth == headers.authorization
  IN IF Len(auth) = 2 /\ auth[1] = "Bearer" THEN auth[2] ELSE ""

\* the token auth_required takes from the headers: the rest of a 'Bearer '
\* Authorization header, else the X-Api-Token header.  None and '' are both
\* "": neither equals a configured token.
RequestToken(headers) ==
  LET auth == headers.authorization
      token == IF Len(auth) = 2 /\ auth[1] = "Bearer" THEN auth[2] ELSE ""
  IN IF token = "" THEN headers.x_api_token ELSE token

AuthOk(headers) == apiToken = "" \/ RequestToken(headers) = apiToken
\* the agents send the token of their own environment, configured like the
\* manager's
HEADERS == IF apiToken # "" THEN Bearer(apiToken) ELSE NoHeaders

\* the answer of upload_task_secrets
UploadResp(updated_files) ==
  [NoResp EXCEPT !.code = 201, !.files = updated_files]

\* the answer of rollback_deploy
RollbackResp(target) ==
  [NoResp EXCEPT !.code = 200, !.status = "rolled_back", !.rev = target]

\* the handler returns r to its caller; the agents drop the response of
\* requests.post
Return(th, r) ==
  /\ pc' = [pc EXCEPT ![th] = loc[th].ret]
  /\ resp' = [resp EXCEPT ![th] =
                IF th \in Callers THEN [r EXCEPT !.req = resp[th].req] ELSE NoResp]

\* what a thread keeps of its locals when a handler has returned to it
Kept(th) == IF th \in Clients THEN LocInit ELSE [loc[th] EXCEPT !.meta = NoMeta]

Goto(th, label) == pc' = [pc EXCEPT ![th] = label]

Error(code, type, rq) == [NoResp EXCEPT !.code = code, !.error = type, !.req = rq]
MetaResp(code, m) ==
  [NoResp EXCEPT !.code = code, !.id = m.id, !.status = m.status,
                 !.files = m.secret_files]
Pending(rq) == [NoResp EXCEPT !.req = rq]

\* ------------------------------------------------------------- create_task
\* the id under which create_task stores the task
FinalId(task_id, spec) ==
  IF projectSchema /\ spec.manifest /\ spec.slug # NoId THEN spec.slug ELSE task_id

\* the spec create_task writes to spec.yaml
StoredSpec(spec) ==
  IF projectSchema /\ spec.manifest
  THEN [NoSpec EXCEPT !.kind = "yaml", !.deploy = TRUE,
                      !.deployment = spec.deployment, !.project = TRUE,
                      !.taskValid = spec.taskValid]
  ELSE spec

\* lines 190-198: the id is refused
IdRefusedNoValidation(task_id) == task_id \in dirs
IdRefusedNoExistsCheck(task_id) == ~IdAccepted(task_id) \/ ~TaskPathOk(task_id)
IdRefused(task_id) ==
  \/ ~IdAccepted(task_id)
  \/ ~TaskPathOk(task_id)
  \/ task_id \in dirs

\* lines 200-239: the spec is refused
SpecRefused(task_id, spec) ==
  \/ projectSchema /\ spec.manifest /\ ~spec.projValid
  \/ projectSchema /\ spec.manifest /\ spec.slug # NoId /\ ~TaskPathOk(spec.slug)
  \/ taskSchema /\ ~spec.taskValid

\* lines 207 and 239: the message of the error holds str(e), and the text
\* of a jsonschema.ValidationError ends with the instance that failed,
\* printed in full
SchemaErrorEcho(task_id, spec) ==
  LET project == projectSchema /\ spec.manifest
      raised == \/ project /\ ~spec.projValid
                \/ /\ ~(project /\ spec.slug # NoId /\ ~TaskPathOk(spec.slug))
                   /\ taskSchema /\ ~spec.taskValid
  IN IF ~IdRefused(task_id) /\ raised /\ spec.failsAt = "spec"
        /\ spec.deployment.env
     THEN {"val"} ELSE {}

\* lines 249-254: the meta record of a new task
NewMetaInProgress(task_id) ==
  [NoMeta EXCEPT !.kind = "json", !.id = task_id, !.title = "T", !.status = "in_progress"]
NewMeta(task_id) ==
  [NoMeta EXCEPT !.kind = "json", !.id = task_id, !.title = "T", !.status = "created"]

\* create_task up to the first write: auth_required, ensure_workspace, the
\* checks of the id and of the spec.  gen is the uuid drawn for a request
\* without id; ret is where the caller continues.
CtCheck(th, reqid, spec, headers, gen, ret) ==
  LET task_id == IF reqid # NoId THEN reqid ELSE gen
      rq == [op |-> "create_task", id |-> reqid, status |-> "",
             headers |-> headers, auth |-> AuthOk(headers)]
      l == [loc[th] EXCEPT !.ret = ret]
      fail(r) == /\ loc' = [loc EXCEPT ![th] = l]
                 /\ pc' = [pc EXCEPT ![th] = ret]
                 /\ resp' = [resp EXCEPT ![th] =
                               IF th \in Callers THEN r ELSE NoResp]
  IN
  IF ~AuthOk(headers)
  THEN /\ fail(Error(400, "AuthenticationError", rq))
       /\ UNCHANGED <<tasksRoot, wsInit>>
  ELSE /\ tasksRoot' = (tasksRoot \/ ~wsInit)
       /\ wsInit' = TRUE
       /\ IF IdRefused(task_id) \/ SpecRefused(task_id, spec)
          THEN fail([Error(400, "ValidationError", rq) EXCEPT
                       !.echoed = SchemaErrorEcho(task_id, spec)])
          ELSE /\ loc' = [loc EXCEPT ![th] =
                            [l EXCEPT !.id = FinalId(task_id, spec),
                                      !.spec = StoredSpec(spec),
                                      !.meta = NewMeta(FinalId(task_id, spec))]]
               /\ pc' = [pc EXCEPT ![th] = "ct_mkdir"]
               /\ resp' = [resp EXCEPT ![th] = Pending(rq)]

\* POST /api/tasks from a client
CreateTaskRequest(c, reqid, spec, headers, gen) ==
  /\ c \in Clients /\ pc[c] = "idle" /\ CanStep(c)
  /\ nreq < MaxRequests
  /\ nreq' = nreq + 1
  /\ CtCheck(c, reqid, spec, headers, gen, "idle")
  /\ UNCHANGED <<now, config, dirs, specf, metaf, secf, srcf, recf, testf, dep, www,
                 niter, oplog, arch>>

\* os.makedirs(task_dir, exist_ok=True)
CtMkdir(th) ==
  /\ pc[th] = "ct_mkdir" /\ CanStep(th)
  /\ dirs' = dirs \cup {loc[th].id}
  /\ tasksRoot' = TRUE
  /\ Goto(th, "ct_spec")
  /\ UNCHANGED <<now, config, wsInit, specf, metaf, secf, srcf, recf, testf, dep,
                 www, loc, resp, nreq, niter, oplog, arch>>

\* yaml.safe_dump(spec, f)
CtSpec(th) ==
  /\ pc[th] = "ct_spec" /\ CanStep(th)
  /\ specf' = [specf EXCEPT ![loc[th].id] = loc[th].spec]
  /\ Goto(th, "ct_secrets")
  /\ UNCHANGED <<now, config, tasksRoot, wsInit, dirs, metaf, secf, srcf,
                 recf, testf, dep, www, loc, resp, nreq, niter, oplog, arch>>

\* _handle_deployment_secrets: .env gets the values, each declared secret
\* that is not yet a file an empty placeholder
SecretsWritten(old, deployment) ==
  [n \in SecretFiles |->
     IF n = EnvName /\ deployment.env THEN "val"
     ELSE IF n \in deployment.secrets /\ old[n] = "absent" THEN "empty"
     ELSE old[n]]

CtSecrets(th) ==
  /\ pc[th] = "ct_secrets" /\ CanStep(th)
  /\ LET id == loc[th].id
         deployment == loc[th].spec.deployment
     IN IF deployment.present
        THEN /\ secf' = [secf EXCEPT ![id] =
                           [exists |-> TRUE,
                            files |-> SecretsWritten(secf[id].files, deployment)]]
             /\ loc' = [loc EXCEPT ![th].meta.secrets = TRUE]
        ELSE UNCHANGED <<secf, loc>>
  /\ Goto(th, "ct_meta_open")
  /\ UNCHANGED <<now, config, tasksRoot, wsInit, dirs, specf, metaf, srcf,
                 recf, testf, dep, www, resp, nreq, niter, oplog, arch>>

\* open(meta_path, 'w'); created_at was taken when meta was built
CtMetaOpen(th) ==
  /\ pc[th] = "ct_meta_open" /\ CanStep(th)
  /\ metaf' = [metaf EXCEPT ![loc[th].id] = PartialMeta]
  /\ loc' = [loc EXCEPT ![th].meta.created_at = now]
  /\ Goto(th, "ct_meta_write")
  /\ UNCHANGED <<now, config, tasksRoot, wsInit, dirs, specf, secf, srcf,
                 recf, testf, dep, www, resp, nreq, niter, oplog, arch>>

\* json.dump(meta, f); return jsonify(meta), 201
CtMetaWrite(th) ==
  /\ pc[th] = "ct_meta_write" /\ CanStep(th)
  /\ metaf' = [metaf EXCEPT ![loc[th].id] = loc[th].meta]
  /\ Return(th, MetaResp(201, loc[th].meta))
  /\ loc' = [loc EXCEPT ![th] = Kept(th)]
  /\ UNCHANGED <<now, config, tasksRoot, wsInit, dirs, specf, secf, srcf,
                 recf, testf, dep, www, nreq, niter, oplog, arch>>

\* ---------------------------------------------------------------- get_task
\* the answer of get_task(id) when mf holds the meta.json files
GetTaskIn(mf, id) ==
  IF ~TaskPathOk(id) THEN Error(400, "ValidationError", NoReq)
  ELSE IF mf[id].kind = "none" THEN Error(404, "not found", NoReq)
  ELSE IF mf[id].kind = "partial" THEN Error(500, "Internal server error", NoReq)
  ELSE MetaResp(200, mf[id])
get_task(id) == GetTaskIn(metaf, id)

\* ------------------------------------------- update_status, trigger_deploy
\* meta['status'] = status; meta['updated_at'] = datetime.utcnow()...
StampedStatusOnly(m, status) == [m EXCEPT !.status = status]
Stamped(m, status) == [m EXCEPT !.status = status, !.updated_at = now]

\* Both handlers up to the read of meta.json; status is the new status
\* ("" when the body carries none), op the handler's name.
UsCheck(th, id, status, headers, ret, op) ==
  LET rq == [op |-> op, id |-> id, status |-> status, headers |-> headers,
             auth |-> AuthOk(headers)]
      l == [loc[th] EXCEPT !.ret = ret]
      fail(r) == /\ loc' = [loc EXCEPT ![th] = l]
                 /\ pc' = [pc EXCEPT ![th] = ret]
                 /\ resp' = [resp EXCEPT ![th] =
                               IF th \in Callers THEN r ELSE NoResp]
  IN
  IF ~AuthOk(headers) THEN fail(Error(400, "AuthenticationError", rq))
  ELSE IF ~TaskPathOk(id) THEN fail(Error(400, "ValidationError", rq))
  ELSE IF metaf[id].kind = "none" THEN fail(Error(404, "not found", rq))
  ELSE IF status = "" THEN fail(Error(400, "missing status", rq))
  ELSE IF metaf[id].kind = "partial" THEN fail(Error(500, "Internal server error", rq))
  ELSE /\ loc' = [loc EXCEPT ![th] =
                    [l EXCEPT !.id = id,
                              !.meta = Stamped(metaf[id], status)]]
       /\ pc' = [pc EXCEPT ![th] = "us_open"]
       /\ resp' = [resp EXCEPT ![th] = Pending(rq)]

\* POST /api/tasks/<id>/status from a client
UpdateStatusRequest(c, id, status, headers) ==
  /\ c \in Clients /\ pc[c] = "idle" /\ CanStep(c)
  /\ nreq < MaxRequests
  /\ nreq' = nreq + 1
  /\ UsCheck(c, id, status, headers, "idle", "update_status")
  /\ UNCHANGED <<now, config, store, wsInit, dep, www, niter, oplog, arch>>

\* POST /api/tasks/<id>/deploy from a client
TriggerDeployRequest(c, id, headers) ==
  /\ c \in Clients /\ pc[c] = "idle" /\ CanStep(c)
  /\ nreq < MaxRequests
  /\ nreq' = nreq + 1
  /\ UsCheck(c, id, "ready_for_deploy", headers, "idle", "trigger_deploy")
  /\ UNCHANGED <<now, config, store, wsInit, dep, www, niter, oplog, arch>>

\* open(meta_file, 'w')
UsOpen(th) ==
  /\ pc[th] = "us_open" /\ CanStep(th)
  /\ metaf' = [metaf EXCEPT ![loc[th].id] = PartialMeta]
  /\ Goto(th, "us_write")
  /\ UNCHANGED <<now, config, tasksRoot, wsInit, dirs, specf, secf, srcf,
                 recf, testf, dep, www, loc, resp, nreq, niter, oplog, arch>>

\* json.dump(meta, f); return jsonify(meta)
UsWrite(th) ==
  /\ pc[th] = "us_write" /\ CanStep(th)
  /\ metaf' = [metaf EXCEPT ![loc[th].id] = loc[th].meta]
  /\ Return(th, IF resp[th].req.op = "rollback"
                  THEN RollbackResp(loc[th].target)
                  ELSE IF resp[th].req.op = "upload_secrets"
                  THEN UploadResp(loc[th].updated_files)
                  ELSE MetaResp(200, loc[th].meta))
  /\ loc' = [loc EXCEPT ![th] = Kept(th)]
  /\ UNCHANGED <<now, config, tasksRoot, wsInit, dirs, specf, secf, srcf,
                 recf, testf, dep, www, nreq, niter, oplog, arch>>

\* ------------------------------------------- the handlers of GET requests
\* the answer of list_task_secrets(id): the names of the files of secrets/
list_task_secrets(id) ==
  IF ~TaskPathOk(id) THEN Error(400, "ValidationError", NoReq)
  ELSE IF id \notin dirs THEN Error(404, "task not found", NoReq)
  ELSE IF ~secf[id].exists THEN [NoResp EXCEPT !.code = 200]
  ELSE [NoResp EXCEPT !.code = 200,
                      !.files = {n \in SecretFiles :
                                   secf[id].files[n] # "absent"}]

\* the answer of list_tasks(): the meta.json of every task directory
list_tasks ==
  IF \E id \in dirs : metaf[id].kind = "partial"
  THEN Error(500, "Internal server error", NoReq)
  ELSE [NoResp EXCEPT !.code = 200,
                      !.tasks = {[id |-> metaf[id].id,
                                  status |-> metaf[id].status,
                                  files |-> metaf[id].secret_files] :
                                   id \in {i \in dirs : metaf[i].kind = "json"}}]

\* a GET from a client: the handlers only read, no token is asked for
GetRequest(c, op, id) ==
  /\ c \in Clients /\ pc[c] = "idle" /\ CanStep(c)
  /\ nreq < MaxRequests
  /\ nreq' = nreq + 1
  /\ LET rq == [NoReq EXCEPT !.op = op, !.id = id]
         r == IF op = "get_task" THEN get_task(id)
              ELSE IF op = "list_task_secrets" THEN list_task_secrets(id)
              ELSE list_tasks
     IN resp' = [resp EXCEPT ![c] = [r EXCEPT !.req = rq]]
  /\ UNCHANGED <<now, config, store, wsInit, dep, www, pc, loc, niter, oplog,
                 arch>>

\* ------------------------------------------------------ upload_task_secrets
\* what a POST /api/tasks/<id>/secrets carries: a JSON body with an env
\* dict, or multipart files under their file names
UploadNames == {"key", ".."}
UploadBodies ==
  {[env |-> TRUE, files |-> {}]}
    \cup {[env |-> FALSE, files |-> f] : f \in SUBSET UploadNames}

\* werkzeug's secure_filename: '..' has no safe character left
secure_filename(n) == IF n = ".." THEN "" ELSE n

\* updated_files: '.env' for an env dict, then each file name that
\* secure_filename leaves non-empty
UpdatedFiles(body) ==
  (IF body.env THEN {EnvName} ELSE {})
    \cup ({secure_filename(n) : n \in body.files} \ {""})

\* lines 280-320: auth_required, the task directory, secrets/ and the files
UploadSecretsRequest(c, id, body, headers) ==
  /\ c \in Clients /\ pc[c] = "idle" /\ CanStep(c)
  /\ nreq < MaxRequests
  /\ nreq' = nreq + 1
  /\ LET rq == [op |-> "upload_secrets", id |-> id, status |-> "",
                headers |-> headers, auth |-> AuthOk(headers)]
         fail(r) == /\ resp' = [resp EXCEPT ![c] = r]
                    /\ UNCHANGED <<secf, pc, loc>>
     IN IF ~AuthOk(headers) THEN fail(Error(400, "AuthenticationError", rq))
        ELSE IF ~TaskPathOk(id) THEN fail(Error(400, "ValidationError", rq))
        ELSE IF id \notin dirs THEN fail(Error(404, "task not found", rq))
        ELSE /\ secf' = [secf EXCEPT ![id] =
                           [exists |-> TRUE,
                            files |-> [n \in SecretFiles |->
                                         IF n \in UpdatedFiles(body)
                                         THEN "val" ELSE secf[id].files[n]]]]
             /\ loc' = [loc EXCEPT ![c] =
                          [LocInit EXCEPT !.id = id,
                                          !.updated_files = UpdatedFiles(body)]]
             /\ pc' = [pc EXCEPT ![c] = "up_meta"]
             /\ resp' = [resp EXCEPT ![c] = Pending(rq)]
  /\ UNCHANGED <<now, config, tasksRoot, wsInit, dirs, specf, metaf, srcf,
                 recf, testf, dep, www, niter, oplog, arch>>

\* lines 322-330: meta.json is read, or begun as {'id': task_id}
UpMeta(c) ==
  /\ pc[c] = "up_meta" /\ CanStep(c)
  /\ LET id == loc[c].id
         meta == IF metaf[id].kind = "none"
                 THEN [NoMeta EXCEPT !.kind = "json", !.id = id]
                 ELSE metaf[id]
     IN IF metaf[id].kind = "partial"
        THEN /\ Return(c, [NoResp EXCEPT !.code = 500,
                                         !.error = "failed to update meta"])
             /\ loc' = [loc EXCEPT ![c] = Kept(c)]
        ELSE /\ loc' = [loc EXCEPT ![c].meta =
                          [meta EXCEPT !.secrets = TRUE,
                                       !.secret_files =
                                          @ \cup loc[c].updated_files]]
             /\ Goto(c, "us_open")
             /\ UNCHANGED resp
  /\ UNCHANGED <<now, config, store, wsInit, dep, www, nreq, niter, oplog,
                 arch>>

\* the clock
Tick ==
  /\ now < MaxNow
  /\ now' = now + 1
  /\ UNCHANGED <<config, store, wsInit, dep, www, pc, loc, resp, nreq, niter,
                 oplog, arch>>

\* -------------------------------------------------------- deployment agent
\* the except of the main loop: the iteration ends, the agent sleeps
Abort(d) ==
  /\ pc' = [pc EXCEPT ![d] = "da_sleep"]
  /\ loc' = [loc EXCEPT ![d] = [LocInit EXCEPT !.sleepAt = now]]

\* the last three entries of the operation log
Logged(log, e) ==
  LET l == Append(log, e)
  IN IF Len(l) > 3 THEN SubSeq(l, Len(l) - 2, Len(l)) ELSE l

\* the names os.listdir(TASKS_DIR) returns
Listing == {i \in dirs : TaskPathOk(i)}

\* time.sleep(5) is over; os.listdir(TASKS_DIR).  bounded: the iterations
\* are counted up to MaxIterations and a sleep ends in a later second;
\* else the loop runs for ever, the sleeps not timed
DaListOn(d, bounded) ==
  /\ d \in Agents /\ pc[d] = "da_sleep" /\ CanStep(d)
  /\ IF bounded
     THEN /\ now > loc[d].sleepAt
          /\ niter < MaxIterations
          /\ niter' = niter + 1
     ELSE UNCHANGED niter
  /\ IF tasksRoot
     THEN /\ pc' = [pc EXCEPT ![d] = "da_next"]
          /\ loc' = [loc EXCEPT ![d] = [LocInit EXCEPT !.todo = Listing]]
     ELSE Abort(d)
  /\ UNCHANGED <<now, config, store, wsInit, dep, www, resp, nreq, oplog, arch>>

DaList(d) == DaListOn(d, TRUE)

\* lines 96-120: the task is one to deploy
DeployableAnyStatus(name) ==
  /\ metaf[name].kind = "json"
  /\ specf[name].kind = "yaml"
  /\ specf[name].deploy
  /\ srcf[name] # 0
DeployableOnlyReady(name) ==
  /\ metaf[name].kind = "json"
  /\ metaf[name].status = "ready_for_deploy"
  /\ specf[name].kind = "yaml"
  /\ specf[name].deploy
  /\ srcf[name] # 0
DeployableNoSrc(name) ==
  /\ metaf[name].kind = "json"
  /\ metaf[name].status \in {"completed", "ready_for_deploy"}
  /\ specf[name].kind = "yaml"
  /\ specf[name].deploy
Deployable(name) ==
  /\ metaf[name].kind = "json"
  /\ metaf[name].status \in {"completed", "ready_for_deploy"}
  /\ specf[name].kind = "yaml"
  /\ specf[name].deploy
  /\ srcf[name] # 0

\* the for loop takes the next name (listing order is unspecified); lines
\* 93-125: the filters, then the two os.makedirs
DaNext(d) ==
  /\ pc[d] = "da_next" /\ CanStep(d)
  /\ IF loc[d].todo = {}
     THEN /\ Abort(d)
          /\ UNCHANGED dep
     ELSE \E name \in loc[d].todo :
            IF metaf[name].kind = "partial"
            THEN /\ Abort(d)
                 /\ UNCHANGED dep
            ELSE IF ~Deployable(name)
            THEN /\ loc' = [loc EXCEPT ![d].todo = @ \ {name}]
                 /\ UNCHANGED <<pc, dep>>
            ELSE /\ loc' = [loc EXCEPT ![d].todo = @ \ {name},
                                       ![d].id = name,
                                       ![d].spec = specf[name],
                                       ![d].prev = dep[name].current,
                                       ![d].before = RevList(dep[name])]
                 /\ pc' = [pc EXCEPT ![d] = "da_rmtmp"]
                 /\ dep' = [dep EXCEPT ![name].exists = TRUE, ![name].revdir = TRUE]
  /\ UNCHANGED <<now, config, store, wsInit, www, resp, nreq, niter, oplog, arch>>

\* if os.path.exists(current_dir): shutil.rmtree(current_dir)
DaRmTmp(d) ==
  /\ pc[d] = "da_rmtmp" /\ CanStep(d)
  /\ dep' = [dep EXCEPT ![loc[d].id].current_tmp = <<>>]
  /\ Goto(d, "da_copy")
  /\ UNCHANGED <<now, config, store, wsInit, www, loc, resp, nreq, niter,
                 oplog, arch>>

\* shutil.copytree(src_dir, current_dir): FileExistsError when the staging
\* directory is there again
DaCopy(d) ==
  /\ pc[d] = "da_copy" /\ CanStep(d)
  /\ LET name == loc[d].id
     IN IF dep[name].current_tmp # <<>> \/ srcf[name] = 0
        THEN /\ Abort(d)
             /\ UNCHANGED dep
        ELSE /\ dep' = [dep EXCEPT ![name].current_tmp = <<srcf[name]>>]
             /\ Goto(d, "da_archive")
             /\ UNCHANGED loc
  /\ UNCHANGED <<now, config, store, wsInit, www, resp, nreq, niter, oplog, arch>>

\* lines 133-134: the name under which the old 'current' is archived
ArchiveName(t) == [ts |-> t, sfx |-> ""]

\* if os.path.exists(final_dir): shutil.move(final_dir, archived)
DaArchive(d) ==
  /\ pc[d] = "da_archive" /\ CanStep(d)
  /\ LET name == loc[d].id
         archived == ArchiveName(now)
         dst == dep[name].revs[archived]
     IN IF dep[name].current = <<>>
        THEN /\ Goto(d, "da_swap")
             /\ UNCHANGED <<dep, loc, arch>>
        ELSE IF MoveRaises(dst)
        THEN /\ Abort(d)
             /\ UNCHANGED <<dep, arch>>
        ELSE /\ dep' = [dep EXCEPT ![name].revs[archived] =
                                      MoveResult(dep[name].current, dst),
                                   ![name].current = <<>>]
             /\ arch' = [arch EXCEPT ![name] =
                           @ \cup {[name |-> archived, content |-> dep[name].current,
                                     seq |-> Cardinality(@) + 1]}]
             /\ Goto(d, "da_swap")
             /\ UNCHANGED loc
  /\ UNCHANGED <<now, config, store, wsInit, www, resp, nreq, niter, oplog>>

\* os.rename(current_dir, final_dir): OSError when the staging directory is
\* gone or 'current' is a directory with entries
DaSwap(d) ==
  /\ pc[d] = "da_swap" /\ CanStep(d)
  /\ LET name == loc[d].id
     IN IF dep[name].current_tmp = <<>> \/ dep[name].current # <<>>
        THEN /\ Abort(d)
             /\ UNCHANGED <<dep, oplog>>
        ELSE /\ dep' = [dep EXCEPT ![name].current = dep[name].current_tmp,
                                   ![name].current_tmp = <<>>]
             /\ oplog' = [oplog EXCEPT ![name] =
                            Logged(@, [op |-> "deploy", content |-> dep[name].current_tmp,
                                       rev |-> NoRev, target |-> NoRev])]
             /\ Goto(d, "da_mirror")
             /\ UNCHANGED loc
  /\ UNCHANGED <<now, config, store, wsInit, www, resp, nreq, niter, arch>>

\* The agent's process dies between the shutil.move of line 135 and the
\* os.rename of line 137 (loc keeps what the dead process had read, nothing
\* reads it before DaStart), while an iteration is left for a later run.
DaCrash(d) ==
  /\ pc[d] = "da_swap" /\ CanStep(d)
  /\ niter < MaxIterations
  /\ Goto(d, "da_down")
  /\ UNCHANGED <<now, config, store, wsInit, dep, www, loc, resp, nreq, niter,
                 oplog, arch>>

\* os.rename raises: the except of line 246 ends the iteration
DaSwapRaises(d) ==
  /\ pc[d] = "da_swap" /\ CanStep(d)
  /\ niter < MaxIterations
  /\ Abort(d)
  /\ UNCHANGED <<now, config, store, wsInit, dep, www, resp, nreq, niter,
                 oplog, arch>>

\* the agent is started again: lines 17-29, then the loop
DaStart(d) ==
  /\ pc[d] = "da_down" /\ CanStep(d)
  /\ pc' = [pc EXCEPT ![d] = "da_sleep"]
  /\ loc' = [loc EXCEPT ![d] = LocInit]
  /\ UNCHANGED <<now, config, store, wsInit, dep, www, resp, nreq, niter,
                 oplog, arch>>

\* lines 138-213: the runner is remote-ssh and the remote copy succeeds, or
\* 'current' is mirrored into www (cleared first; a failure is only
\* printed); then the record is built
DaMirror(d, remote) ==
  /\ pc[d] = "da_mirror" /\ CanStep(d)
  /\ www' = IF remote THEN www ELSE dep[loc[d].id].current
  /\ loc' = [loc EXCEPT ![d].rec =
               [task |-> loc[d].id, timestamp |-> now,
                path |-> IF remote THEN "remote" ELSE "local",
                verified |-> "unset", code |-> -1, url |-> "", op |-> "deploy"],
                        ![d].ret = "da_post_deployed"]
  /\ Goto(d, "wr_read")
  /\ UNCHANGED <<now, config, store, wsInit, dep, resp, nreq, niter, oplog, arch>>

\* write_deploy_record, lines 41-48: what the file holds, or [] when it is
\* absent or json.load raises
RecordsRead(f) == IF f.kind = "json" THEN f.list ELSE <<>>

\* records.append(record)
WrRead(d) ==
  /\ pc[d] = "wr_read" /\ CanStep(d)
  /\ loc' = [loc EXCEPT ![d].recs = Append(RecordsRead(recf[loc[d].id]), loc[d].rec)]
  /\ Goto(d, "wr_open")
  /\ UNCHANGED <<now, config, store, wsInit, dep, www, resp, nreq, niter,
                 oplog, arch>>

\* open(records_file, 'w')
WrOpen(d) ==
  /\ pc[d] = "wr_open" /\ CanStep(d)
  /\ recf' = [recf EXCEPT ![loc[d].id] = PartialRecords(@)]
  /\ Goto(d, "wr_write")
  /\ UNCHANGED <<now, config, tasksRoot, wsInit, dirs, specf, metaf, secf,
                 srcf, testf, dep, www, loc, resp, nreq, niter, oplog, arch>>

\* json.dump(records, f)
WrWrite(d) ==
  /\ pc[d] = "wr_write" /\ CanStep(d)
  /\ recf' = [recf EXCEPT ![loc[d].id] =
                 [kind |-> "json", list |-> loc[d].recs, last |-> loc[d].recs]]
  /\ pc' = [pc EXCEPT ![d] = loc[d].ret]
  /\ loc' = [loc EXCEPT ![d].recs = <<>>]
  /\ UNCHANGED <<now, config, tasksRoot, wsInit, dirs, specf, metaf, secf,
                 srcf, testf, dep, www, resp, nreq, niter, oplog, arch>>

\* requests.post(.../status, {'status': status}): the request reaches the
\* manager, whose update_status then runs, or it raises and is only printed
PostStatus(d, status, delivered, ret) ==
  IF delivered
  THEN UsCheck(d, loc[d].id, status, HEADERS, ret, "update_status")
  ELSE /\ pc' = [pc EXCEPT ![d] = ret]
       /\ UNCHANGED <<loc, resp>>

\* lines 221-225
DaPostDeployed(d, delivered) ==
  /\ pc[d] = "da_post_deployed" /\ CanStep(d)
  /\ PostStatus(d, "deployed", delivered, "da_accept")
  /\ UNCHANGED <<now, config, store, wsInit, dep, www, nreq, niter, oplog, arch>>

\* check_acceptance: the first probe with a url decides; observed is the
\* status code of the target, 0 when requests.get raises
FirstUrlProbe(acceptance) ==
  LET ks == {k \in 1..Len(acceptance) : acceptance[k].url # ""}
  IN IF ks = {} THEN 0 ELSE CHOOSE k \in ks : \A j \in ks : k <= j

\* a.get('should_respond', 200)
should_respond(a) == IF a.expect = NoExpect THEN 200 ELSE a.expect

check_acceptanceStrict(acceptance, observed) ==
  LET k == FirstUrlProbe(acceptance)
  IN IF k = 0 THEN FALSE ELSE observed = should_respond(acceptance[k])
check_acceptanceLast(acceptance, observed) ==
  LET ks == {k \in 1..Len(acceptance) : acceptance[k].url # ""}
  IN IF ks = {} THEN TRUE
     ELSE observed = should_respond(acceptance[CHOOSE k \in ks : \A j \in ks : j <= k])
check_acceptance(acceptance, observed) ==
  LET k == FirstUrlProbe(acceptance)
  IN IF k = 0 THEN TRUE ELSE observed = should_respond(acceptance[k])

\* lines 229-232
DaAccept(d, observed) ==
  /\ pc[d] = "da_accept" /\ CanStep(d)
  /\ LET ok == check_acceptance(loc[d].spec.acceptance, observed)
     IN loc' = [loc EXCEPT ![d].ok = ok,
                           ![d].rec.verified = IF ok THEN "true" ELSE "false",
                           ![d].rec.code =
                             IF FirstUrlProbe(loc[d].spec.acceptance) = 0
                             THEN -1 ELSE observed,
                           ![d].rec.url =
                             IF FirstUrlProbe(loc[d].spec.acceptance) = 0
                             THEN ""
                             ELSE loc[d].spec.acceptance[
                                    FirstUrlProbe(loc[d].spec.acceptance)].url,
                           ![d].ret = "da_post_final"]
  /\ Goto(d, "wr_read")
  /\ UNCHANGED <<now, config, store, wsInit, dep, www, resp, nreq, niter,
                 oplog, arch>>

\* lines 233-242
DaPostFinalVerified(d, delivered) ==
  /\ pc[d] = "da_post_final" /\ CanStep(d)
  /\ PostStatus(d, "verified", delivered, IF loc[d].ok THEN "da_next" ELSE "da_followup")
  /\ UNCHANGED <<now, config, store, wsInit, dep, www, nreq, niter, oplog, arch>>
DaPostFinal(d, delivered) ==
  /\ pc[d] = "da_post_final" /\ CanStep(d)
  /\ IF loc[d].ok
     THEN PostStatus(d, "verified", delivered, "da_next")
     ELSE PostStatus(d, "failed", delivered, "da_followup")
  /\ UNCHANGED <<now, config, store, wsInit, dep, www, nreq, niter, oplog, arch>>

\* create_followup_task: the POST reaches create_task or only prints
DaFollowup(d, delivered, gen) ==
  /\ pc[d] = "da_followup" /\ CanStep(d)
  /\ IF delivered
     THEN CtCheck(d, NoId, FollowupSpec(loc[d].id), HEADERS, gen, "da_next")
     ELSE /\ pc' = [pc EXCEPT ![d] = "da_next"]
          /\ UNCHANGED <<loc, resp, tasksRoot, wsInit>>
  /\ UNCHANGED <<now, config, dirs, specf, metaf, secf, srcf, recf, testf, dep, www,
                 nreq, niter, oplog, arch>>

\* ----------------------------------------------------------- testing agent
\* the except of the testing agent's main loop: the iteration ends
TaAbort(t) ==
  /\ pc' = [pc EXCEPT ![t] = "ta_sleep"]
  /\ loc' = [loc EXCEPT ![t] = [LocInit EXCEPT !.sleepAt = now]]

\* time.sleep(5) is over; os.listdir(TASKS_DIR).  bounded: as in DaListOn
TaListOn(t, bounded) ==
  /\ t \in Testers /\ pc[t] = "ta_sleep" /\ CanStep(t)
  /\ IF bounded
     THEN /\ now > loc[t].sleepAt
          /\ niter < MaxIterations
          /\ niter' = niter + 1
     ELSE UNCHANGED niter
  /\ IF tasksRoot
     THEN /\ pc' = [pc EXCEPT ![t] = "ta_next"]
          /\ loc' = [loc EXCEPT ![t] = [LocInit EXCEPT !.todo = Listing]]
     ELSE TaAbort(t)
  /\ UNCHANGED <<now, config, store, wsInit, dep, www, resp, nreq, oplog, arch>>

TaList(t) == TaListOn(t, TRUE)

\* lines 73-79: the task is one to test
Testable(name) ==
  /\ metaf[name].kind = "json"
  /\ metaf[name].status \in {"completed", "ready_for_test"}

\* the for loop takes the next name; lines 70-87: json.load raises on a
\* truncated meta.json; the filters; the spec is {} when it cannot be read
TaNext(t) ==
  /\ pc[t] = "ta_next" /\ CanStep(t)
  /\ IF loc[t].todo = {}
     THEN TaAbort(t)
     ELSE \E name \in loc[t].todo :
            IF metaf[name].kind = "partial"
            THEN TaAbort(t)
            ELSE IF ~Testable(name)
            THEN /\ loc' = [loc EXCEPT ![t].todo = @ \ {name}]
                 /\ UNCHANGED pc
            ELSE /\ loc' = [loc EXCEPT ![t].todo = @ \ {name},
                                       ![t].id = name,
                                       ![t].status = metaf[name].status,
                                       ![t].spec = IF specf[name].kind = "yaml"
                                                     THEN specf[name]
                                                     ELSE NoSpec]
                 /\ pc' = [pc EXCEPT ![t] = "ta_run"]
  /\ UNCHANGED <<now, config, store, wsInit, dep, www, resp, nreq, niter,
                 oplog, arch>>

\* what run_tests finds: no test to run, or a command that passes or fails
TestOutcomes == {"no_tests", "pass", "fail"}

\* run_tests: os.makedirs(reports_dir); without a command it returns
\* (True, 'no_tests'); else the report file is written and the return code
\* of the command decides
TaRun(t, outcome) ==
  /\ pc[t] = "ta_run" /\ CanStep(t)
  /\ testf' = [testf EXCEPT ![loc[t].id] =
                 [@ EXCEPT !.dir = TRUE,
                           !.files = IF outcome = "no_tests" THEN @
                                     ELSE @ \cup {now}]]
  /\ loc' = [loc EXCEPT ![t].ok = (outcome # "fail"),
                        ![t].info = IF outcome = "no_tests" THEN "no_tests"
                                    ELSE "report"]
  /\ Goto(t, "ta_post")
  /\ UNCHANGED <<now, config, tasksRoot, wsInit, dirs, specf, metaf, secf,
                 srcf, recf, dep, www, resp, nreq, niter, oplog, arch>>

\* lines 99-111: requests.post(.../status) of 'tested' or 'failed'; the
\* request reaches the manager or raises and is only printed; without
\* tests the loop continues with the next task
TaPost(t, delivered) ==
  /\ pc[t] = "ta_post" /\ CanStep(t)
  /\ LET ret == IF loc[t].info = "no_tests" THEN "ta_next" ELSE "ta_record"
         new_status == IF loc[t].ok THEN "tested" ELSE "failed"
     IN IF delivered
        THEN UsCheck(t, loc[t].id, new_status, HEADERS, ret, "update_status")
        ELSE /\ pc' = [pc EXCEPT ![t] = ret]
             /\ UNCHANGED <<loc, resp>>
  /\ UNCHANGED <<now, config, store, wsInit, dep, www, nreq, niter, oplog, arch>>

\* lines 113-124: the entry appended to test_records.json
TaRecord(t) ==
  /\ pc[t] = "ta_record" /\ CanStep(t)
  /\ testf' = [testf EXCEPT ![loc[t].id].list =
                 Append(@, [timestamp |-> now, ok |-> loc[t].ok])]
  /\ Goto(t, "ta_next")
  /\ UNCHANGED <<now, config, tasksRoot, wsInit, dirs, specf, metaf, secf,
                 srcf, recf, dep, www, loc, resp, nreq, niter, oplog, arch>>

\* ------------------------------------------------- coding agent, main loop
\* DevSysHTTPClient._handle_response: what the status code of a response
\* makes of a call of the ManagerClient ("ok": the call returns)
handle_response(code) ==
  IF code \in {401, 403} THEN "AuthenticationError"
  ELSE IF code >= 400 THEN "NetworkError"
  ELSE "ok"

\* lines 259-273: the except clause that takes an exception raised while a
\* task is processed: "failed" posts the status 'failed', "log" only logs
ExceptClauseNoNetworkError(raised) == "failed"
ExceptClause(raised) ==
  IF raised = "TaskProcessingError" THEN "failed"
  ELSE IF raised = "NetworkError" THEN "log"
  ELSE "failed"

\* the for loop is left: time.sleep(poll_interval) unless shutdown is
\* requested, then the while condition
CaEndLoop(g) ==
  /\ pc' = [pc EXCEPT ![g] = "ca_sleep"]
  /\ loc' = [loc EXCEPT ![g] =
               [LocInit EXCEPT !.sleepAt = IF shutdown_requested THEN NoTime
                                           ELSE now]]

\* an exception of class raised leaves the try block of the task; info is
\* what went wrong: "unreachable" (no answer from the manager), "answer"
\* (the manager answered with an error) or "disk"
CaRaise(g, raised, info) ==
  /\ pc' = [pc EXCEPT ![g] = "ca_except"]
  /\ loc' = [loc EXCEPT ![g].raised = raised, ![g].info = info]

\* SIGTERM or SIGINT: signal_handler sets the flag.  It comes while the
\* clock leaves time for a sleep that is under way to end.
Signal(g) ==
  /\ g \in Coders /\ g \in active /\ pc[g] # "ca_exit"
  /\ ~shutdown_requested
  /\ now < MaxNow
  /\ shutdown_requested' = TRUE
  /\ UNCHANGED <<now, apiToken, projectSchema, taskSchema, solo, active, store,
                 wsInit, dep, www, pc, loc, resp, nreq, niter, oplog, arch>>

\* while not shutdown_requested: the sleep is over; os.listdir(TASKS_DIR)
CaList(g) ==
  /\ g \in Coders /\ pc[g] = "ca_sleep" /\ CanStep(g)
  /\ ~shutdown_requested
  /\ now > loc[g].sleepAt
  /\ niter < MaxIterations
  /\ niter' = niter + 1
  /\ IF tasksRoot
     THEN /\ pc' = [pc EXCEPT ![g] = "ca_next"]
          /\ loc' = [loc EXCEPT ![g] = [LocInit EXCEPT !.todo = Listing]]
     ELSE CaEndLoop(g)
  /\ UNCHANGED <<now, config, store, wsInit, dep, www, resp, nreq, oplog, arch>>

\* the while condition fails: sys.exit(0)
CaExit(g) ==
  /\ g \in Coders /\ pc[g] = "ca_sleep" /\ CanStep(g)
  /\ shutdown_requested
  /\ now > loc[g].sleepAt
  /\ pc' = [pc EXCEPT ![g] = "ca_exit"]
  /\ loc' = [loc EXCEPT ![g] = LocInit]
  /\ UNCHANGED <<now, config, store, wsInit, dep, www, resp, nreq, niter,
                 oplog, arch>>

\* lines 201-203: the for loop ends when the names are used up, and at
\* the break on the shutdown flag, looked at before each name
LoopEndsNoFlag(todo) == todo = {}
LoopEnds(todo) == shutdown_requested \/ todo = {}

\* lines 201-218: read_meta gives None for a meta.json that is absent or
\* cannot be parsed; only a task in status 'created' is taken
CaNext(g) ==
  /\ pc[g] = "ca_next" /\ CanStep(g)
  /\ IF LoopEnds(loc[g].todo)
     THEN CaEndLoop(g)
     ELSE \E name \in loc[g].todo :
            IF metaf[name].kind # "json" \/ metaf[name].status # "created"
            THEN /\ loc' = [loc EXCEPT ![g].todo = @ \ {name}]
                 /\ UNCHANGED pc
            ELSE /\ loc' = [loc EXCEPT ![g].todo = @ \ {name},
                                       ![g].id = name,
                                       ![g].status = metaf[name].status,
                                       ![g].raised = "", ![g].info = ""]
                 /\ pc' = [pc EXCEPT ![g] = "ca_begin"]
  /\ UNCHANGED <<now, config, store, wsInit, dep, www, resp, nreq, niter,
                 oplog, arch>>

\* manager_client.update_task_status(name, status): the POST reaches the
\* manager, whose update_status runs and answers, or _make_request raises
\* NetworkError (no connection, timeout)
CaPost(g, status, delivered, ret) ==
  IF delivered
  THEN UsCheck(g, loc[g].id, status, HEADERS, ret, "update_status")
  ELSE /\ CaRaise(g, "NetworkError", "unreachable")
       /\ UNCHANGED resp

\* line 222: mark the task as in progress
CaBegin(g, delivered) ==
  /\ pc[g] = "ca_begin" /\ CanStep(g)
  /\ CaPost(g, "in_progress", delivered, "ca_begun")
  /\ UNCHANGED <<now, config, store, wsInit, dep, www, nreq, niter, oplog, arch>>

\* the answer to the 'in_progress' post; lines 225-238: the spec is read
\* (a file the manager wrote, or began to write, parses)
CaSpec(g) ==
  /\ pc[g] = "ca_begun" /\ CanStep(g)
  /\ IF handle_response(resp[g].code) = "ok"
     THEN /\ pc' = [pc EXCEPT ![g] = "ca_scaffold"]
          /\ loc' = [loc EXCEPT ![g].spec =
                       IF specf[loc[g].id].kind = "yaml" THEN specf[loc[g].id]
                       ELSE NoSpec]
     ELSE CaRaise(g, handle_response(resp[g].code), "answer")
  /\ UNCHANGED <<now, config, store, wsInit, dep, www, resp, nreq, niter,
                 oplog, arch>>

\* scaffold_task: os.makedirs(src_dir) and index.html, each run with its
\* own "Generated at" line; written: whether the filesystem took the files
\* (else OSError)
CaScaffold(g, written) ==
  /\ pc[g] = "ca_scaffold" /\ CanStep(g)
  /\ IF written
     THEN /\ \E v \in Versions :
               /\ v # srcf[loc[g].id]
               /\ srcf' = [srcf EXCEPT ![loc[g].id] = v]
          /\ Goto(g, "ca_pr")
          /\ UNCHANGED loc
     ELSE /\ CaRaise(g, "OSError", "disk")
          /\ UNCHANGED srcf
  /\ UNCHANGED <<now, config, tasksRoot, wsInit, dirs, specf, metaf, secf,
                 recf, testf, dep, www, resp, nreq, niter, oplog, arch>>

\* lines 247-253: create_github_pr returns, or raises ExternalServiceError
\* after its retries (git or the GitHub API failed), which is only logged
CaPR(g, pushed) ==
  /\ pc[g] = "ca_pr" /\ CanStep(g)
  /\ pushed \in BOOLEAN
  /\ Goto(g, "ca_finish")
  /\ UNCHANGED <<now, config, store, wsInit, dep, www, loc, resp, nreq, niter,
                 oplog, arch>>

\* line 256: mark the task as completed
CaFinish(g, delivered) ==
  /\ pc[g] = "ca_finish" /\ CanStep(g)
  /\ CaPost(g, "completed", delivered, "ca_finished")
  /\ UNCHANGED <<now, config, store, wsInit, dep, www, nreq, niter, oplog, arch>>

\* the answer to the 'completed' post
CaFinished(g) ==
  /\ pc[g] = "ca_finished" /\ CanStep(g)
  /\ IF handle_response(resp[g].code) = "ok"
     THEN /\ Goto(g, "ca_next")
          /\ UNCHANGED loc
     ELSE CaRaise(g, handle_response(resp[g].code), "answer")
  /\ UNCHANGED <<now, config, store, wsInit, dep, www, resp, nreq, niter,
                 oplog, arch>>

\* lines 259-273: the except clauses; a NetworkError of the 'failed' post
\* is caught and logged
CaExcept(g, delivered) ==
  /\ pc[g] = "ca_except" /\ CanStep(g)
  /\ IF ExceptClause(loc[g].raised) = "log" \/ ~delivered
     THEN /\ Goto(g, "ca_next")
          /\ UNCHANGED <<loc, resp>>
     ELSE UsCheck(g, loc[g].id, "failed", HEADERS, "ca_failed", "update_status")
  /\ UNCHANGED <<now, config, store, wsInit, dep, www, nreq, niter, oplog, arch>>

\* the answer to the 'failed' post: an AuthenticationError leaves the for
\* loop through the except of line 282
CaFailed(g) ==
  /\ pc[g] = "ca_failed" /\ CanStep(g)
  /\ IF handle_response(resp[g].code) = "AuthenticationError"
     THEN CaEndLoop(g)
     ELSE /\ Goto(g, "ca_next")
          /\ UNCHANGED loc
  /\ UNCHANGED <<now, config, store, wsInit, dep, www, resp, nreq, niter,
                 oplog, arch>>

\* the coding agent's iteration.  delivery: whether its POSTs reach the
\* manager; disk: whether the filesystem takes the scaffold; pushes:
\* whether git and GitHub take the branch
CodeStep(g, delivery, disk, pushes) ==
  \/ CaList(g)
  \/ CaExit(g)
  \/ CaNext(g)
  \/ \E delivered \in delivery : CaBegin(g, delivered)
  \/ CaSpec(g)
  \/ \E written \in disk : CaScaffold(g, written)
  \/ \E pushed \in pushes : CaPR(g, pushed)
  \/ \E delivered \in delivery : CaFinish(g, delivered)
  \/ CaFinished(g)
  \/ \E delivered \in delivery : CaExcept(g, delivered)
  \/ CaFailed(g)

\* ------------------------------------------------------------ rollback_deploy
\* line 476: the name under which rollback archives 'current'
RollbackNameNoSuffix(t) == [ts |-> t, sfx |-> ""]
RollbackName(t) == [ts |-> t, sfx |-> "_rollback"]

\* lines 454-472: the 404 answers, else the target revision.  revision is
\* NoRev when the body names none.
RbTarget(tree, revision) == IF revision # NoRev THEN revision ELSE LastRev(tree)

\* a revision value that is no name: os.path.join(revisions_dir,
\* '../current') is the path of 'current'
UpCurrent == [ts |-> -2, sfx |-> "../current"]

\* what the directory at os.path.join(revisions_dir, target) holds
TargetContent(tree, target) ==
  IF target = UpCurrent THEN tree.current ELSE tree.revs[target]

RbNotFound(tree, revision) ==
  \/ ~tree.exists
  \/ ~tree.revdir
  \/ revision # NoRev /\ TargetContent(tree, revision) = <<>>
  \/ revision = NoRev /\ RevList(tree) = {}

\* POST /api/tasks/<id>/rollback from a client
RollbackRequest(c, id, revision, headers) ==
  /\ c \in Clients /\ pc[c] = "idle" /\ CanStep(c)
  /\ nreq < MaxRequests
  /\ nreq' = nreq + 1
  /\ LET rq == [op |-> "rollback", id |-> id, status |-> "",
                headers |-> headers, auth |-> AuthOk(headers)]
     IN IF ~AuthOk(headers)
        THEN /\ resp' = [resp EXCEPT ![c] = Error(400, "AuthenticationError", rq)]
             /\ UNCHANGED <<pc, loc>>
        ELSE IF RbNotFound(dep[id], revision)
        THEN /\ resp' = [resp EXCEPT ![c] = Error(404, "not found", rq)]
             /\ UNCHANGED <<pc, loc>>
        ELSE /\ resp' = [resp EXCEPT ![c] = Pending(rq)]
             /\ loc' = [loc EXCEPT ![c] =
                          [LocInit EXCEPT !.id = id,
                                          !.arg = revision,
                                          !.target = RbTarget(dep[id], revision),
                                          !.prev = dep[id].current,
                                          !.before = RevList(dep[id])]]
             /\ pc' = [pc EXCEPT ![c] = "rb_archive"]
  /\ UNCHANGED <<now, config, store, wsInit, dep, www, niter, oplog, arch>>

\* an exception in the handler: handle_generic_error answers 500
Raise500(c) ==
  /\ pc' = [pc EXCEPT ![c] = "idle"]
  /\ resp' = [resp EXCEPT ![c] = Error(500, "Internal server error", resp[c].req)]
  /\ loc' = [loc EXCEPT ![c] = LocInit]

\* if os.path.exists(current_dir): shutil.move(current_dir, archived)
RbArchive(c) ==
  /\ pc[c] = "rb_archive" /\ CanStep(c)
  /\ LET id == loc[c].id
         archived == RollbackName(now)
         dst == dep[id].revs[archived]
     IN IF dep[id].current = <<>>
        THEN /\ Goto(c, "rb_rmrestored")
             /\ UNCHANGED <<dep, loc, resp, arch>>
        ELSE IF MoveRaises(dst)
        THEN /\ Raise500(c)
             /\ UNCHANGED <<dep, arch>>
        ELSE /\ dep' = [dep EXCEPT ![id].revs[archived] =
                                     MoveResult(dep[id].current, dst),
                                   ![id].current = <<>>]
             /\ arch' = [arch EXCEPT ![id] =
                           @ \cup {[name |-> archived, content |-> dep[id].current,
                                     seq |-> Cardinality(@) + 1]}]
             /\ Goto(c, "rb_rmrestored")
             /\ UNCHANGED <<loc, resp>>
  /\ UNCHANGED <<now, config, store, wsInit, www, nreq, niter, oplog>>

\* if os.path.exists(restored): shutil.rmtree(restored)
RbRmRestored(c) ==
  /\ pc[c] = "rb_rmrestored" /\ CanStep(c)
  /\ dep' = [dep EXCEPT ![loc[c].id].restored_tmp = <<>>]
  /\ Goto(c, "rb_copy")
  /\ UNCHANGED <<now, config, store, wsInit, www, loc, resp, nreq, niter,
                 oplog, arch>>

\* shutil.copytree(target, restored)
RbCopy(c) ==
  /\ pc[c] = "rb_copy" /\ CanStep(c)
  /\ LET id == loc[c].id
     IN IF TargetContent(dep[id], loc[c].target) = <<>>
           \/ dep[id].restored_tmp # <<>>
        THEN /\ Raise500(c)
             /\ UNCHANGED dep
        ELSE /\ dep' = [dep EXCEPT ![id].restored_tmp =
                                     TargetContent(dep[id], loc[c].target)]
             /\ Goto(c, "rb_rmcurrent")
             /\ UNCHANGED <<loc, resp>>
  /\ UNCHANGED <<now, config, store, wsInit, www, nreq, niter, oplog, arch>>

\* if os.path.exists(current_dir): shutil.rmtree(current_dir)
RbRmCurrent(c) ==
  /\ pc[c] = "rb_rmcurrent" /\ CanStep(c)
  /\ dep' = [dep EXCEPT ![loc[c].id].current = <<>>]
  /\ Goto(c, "rb_rename")
  /\ UNCHANGED <<now, config, store, wsInit, www, loc, resp, nreq, niter,
                 oplog, arch>>

\* os.rename(restored, current_dir)
RbRename(c) ==
  /\ pc[c] = "rb_rename" /\ CanStep(c)
  /\ LET id == loc[c].id
     IN IF dep[id].restored_tmp = <<>> \/ dep[id].current # <<>>
        THEN /\ Raise500(c)
             /\ UNCHANGED <<dep, oplog>>
        ELSE /\ dep' = [dep EXCEPT ![id].current = dep[id].restored_tmp,
                                   ![id].restored_tmp = <<>>]
             /\ oplog' = [oplog EXCEPT ![id] =
                            Logged(@, [op |-> "rollback",
                                       content |-> dep[id].restored_tmp,
                                       rev |-> loc[c].arg,
                                       target |-> loc[c].target])]
             /\ Goto(c, "rb_meta")
             /\ UNCHANGED <<loc, resp>>
  /\ UNCHANGED <<now, config, store, wsInit, www, nreq, niter, arch>>

\* lines 487-493: task_path, then the read of meta.json when it exists
RbMeta(c) ==
  /\ pc[c] = "rb_meta" /\ CanStep(c)
  /\ LET id == loc[c].id
     IN IF ~TaskPathOk(id)
        THEN /\ pc' = [pc EXCEPT ![c] = "idle"]
             /\ resp' = [resp EXCEPT ![c] = Error(400, "ValidationError", resp[c].req)]
             /\ loc' = [loc EXCEPT ![c] = LocInit]
        ELSE IF metaf[id].kind = "partial"
        THEN Raise500(c)
        ELSE IF metaf[id].kind = "none"
        THEN /\ pc' = [pc EXCEPT ![c] = "idle"]
             /\ resp' = [resp EXCEPT ![c] =
                           [RollbackResp(loc[c].target) EXCEPT !.req = resp[c].req]]
             /\ loc' = [loc EXCEPT ![c] = LocInit]
        ELSE /\ loc' = [loc EXCEPT ![c].meta =
                          Stamped(metaf[id], "rolled_back"),
                                   ![c].ret = "idle"]
             /\ pc' = [pc EXCEPT ![c] = "us_open"]
             /\ UNCHANGED resp
  /\ UNCHANGED <<now, config, store, wsInit, dep, www, nreq, niter, oplog, arch>>

\* --------------------------------------------------------------- coding agent
\* scaffold_task writes TASKS_DIR/<id>/src; each run differs in its
\* "Generated at" line
WriteSrc(id, v) ==
  /\ \A th \in active : solo => pc[th] \in Parked
  /\ id \in dirs
  /\ srcf[id] # v
  /\ nreq < MaxRequests
  /\ nreq' = nreq + 1
  /\ srcf' = [srcf EXCEPT ![id] = v]
  /\ UNCHANGED <<now, config, tasksRoot, wsInit, dirs, specf, metaf, secf,
                 recf, testf, dep, www, pc, loc, resp, niter, oplog, arch>>

\* ------------------------------------------------------------ the store alone
\* The state after construction: an empty workspace, every thread waiting.
InitWith(threads, one) ==
  /\ now = 0
  /\ tasksRoot = FALSE
  /\ wsInit = FALSE
  /\ dirs = {}
  /\ specf = [i \in AllIds |-> NoSpec]
  /\ metaf = [i \in AllIds |-> NoMeta]
  /\ secf = [i \in AllIds |-> [exists |-> FALSE, files |-> NoSecrets]]
  /\ srcf = [i \in AllIds |-> 0]
  /\ recf = [i \in AllIds |-> NoRecords]
  /\ testf = [i \in AllIds |-> NoTests]
  /\ shutdown_requested = FALSE
  /\ dep = [i \in AllIds |-> NoDeploy]
  /\ www = <<>>
  /\ pc = [th \in Threads |-> StartsAt(th)]
  /\ loc = [th \in Threads |-> LocInit]
  /\ resp = [th \in Threads |-> NoResp]
  /\ solo = one
  /\ active = threads
  /\ nreq = 0
  /\ niter = 0
  /\ oplog = [i \in AllIds |-> <<>>]
  /\ arch = [i \in AllIds |-> {}]

StoreRequestIds == {NoId, IdA, IdDash, IdUp, IdSlash, IdDots}
StoreSpecs ==
  {PlainSpec(FALSE, <<>>),
   [PlainSpec(TRUE, <<>>) EXCEPT !.taskValid = FALSE],
   [PlainSpec(FALSE, <<>>) EXCEPT !.deployment = SomeDeployment],
   ManifestSpec(IdB, SomeDeployment),
   ManifestSpec(IdSlash, NoDeployment),
   [ManifestSpec(NoId, NoDeployment) EXCEPT !.projValid = FALSE]}
Tokens == {NoHeaders, Bearer("tok")}
StoreStatuses == {"", "in_progress", "completed"}

InitStore ==
  /\ InitWith({"c1"}, TRUE)
  /\ apiToken = "tok"
  /\ projectSchema \in BOOLEAN
  /\ taskSchema \in BOOLEAN

NextStore ==
  \/ \E id \in StoreRequestIds, spec \in StoreSpecs, headers \in Tokens, gen \in GenIds :
       CreateTaskRequest("c1", id, spec, headers, gen)
  \/ \E th \in Clients : CtMkdir(th)
  \/ \E th \in Clients : CtSpec(th)
  \/ \E th \in Clients : CtSecrets(th)
  \/ \E th \in Clients : CtMetaOpen(th)
  \/ \E th \in Clients : CtMetaWrite(th)
  \/ \E id \in {IdA, IdUp}, st \in StoreStatuses, headers \in Tokens :
       UpdateStatusRequest("c1", id, st, headers)
  \/ \E id \in {IdA, IdB}, headers \in Tokens : TriggerDeployRequest("c1", id, headers)
  \/ \E th \in Clients : UsOpen(th)
  \/ \E th \in Clients : UsWrite(th)

SpecStore == InitStore /\ [][NextStore]_vars

\* ------------------------------------------------- one task, to be deployed
\* A workspace in which create_task has stored the tasks ids with the spec
\* spec (in InitWorkspace: task IdA with deploy: true and the acceptance
\* probes acc), and src holds version src (0: not scaffolded); it is second
\* t, the status is status, the deploy tree tree, the record file records;
\* ops and moved are the history of the tree.  In InitTask the coding agent
\* has just posted 'completed'.
InitWorkspaceOf(threads, one, ids, spec, t, status, src, tree, records, ops, moved) ==
  /\ now = t
  /\ tasksRoot = TRUE
  /\ wsInit = TRUE
  /\ dirs = ids
  /\ specf = [i \in AllIds |-> IF i \in ids THEN spec ELSE NoSpec]
  /\ metaf = [i \in AllIds |->
                IF i \in ids
                THEN [NewMeta(i) EXCEPT !.status = status,
                                          !.created_at = 0, !.updated_at = t]
                ELSE NoMeta]
  /\ secf = [i \in AllIds |-> [exists |-> FALSE, files |-> NoSecrets]]
  /\ srcf = [i \in AllIds |-> IF i \in ids THEN src ELSE 0]
  /\ recf = [i \in AllIds |-> IF i \in ids THEN records ELSE NoRecords]
  /\ testf = [i \in AllIds |-> NoTests]
  /\ shutdown_requested = FALSE
  /\ dep = [i \in AllIds |-> IF i \in ids THEN tree ELSE NoDeploy]
  /\ www = tree.current
  /\ pc = [th \in Threads |-> StartsAt(th)]
  /\ loc = [th \in Threads |-> LocInit]
  /\ resp = [th \in Threads |-> NoResp]
  /\ solo = one
  /\ active = threads
  /\ nreq = 0
  /\ niter = 0
  /\ oplog = [i \in AllIds |-> IF i \in ids THEN ops ELSE <<>>]
  /\ arch = [i \in AllIds |-> IF i \in ids THEN moved ELSE {}]
  /\ apiToken = "tok"
  /\ projectSchema = TRUE
  /\ taskSchema = TRUE

InitWorkspace(threads, one, acc, t, status, src, tree, records, ops, moved) ==
  InitWorkspaceOf(threads, one, {IdA}, PlainSpec(TRUE, acc), t, status, src, tree,
                  records, ops, moved)

InitTask(threads, one, acc) ==
  InitWorkspace(threads, one, acc, 0, "completed", 1, NoDeploy, NoRecords,
                <<>>, {})

\* uuid.uuid4().hex[:8]: an id no task has
FreshIds == GenIds \ dirs
\* the revision a rollback request names: none, or a name
RollbackArgs == {NoRev} \cup RevNames

\* the steps inside the manager's handlers
HandlerStep(th) ==
  \/ CtMkdir(th)
  \/ CtSpec(th)
  \/ CtSecrets(th)
  \/ CtMetaOpen(th)
  \/ CtMetaWrite(th)
  \/ UsOpen(th)
  \/ UsWrite(th)

RollbackStep(c) ==
  \/ RbArchive(c)
  \/ RbRmRestored(c)
  \/ RbCopy(c)
  \/ RbRmCurrent(c)
  \/ RbRename(c)
  \/ RbMeta(c)

\* the deployment agent's iteration.  delivery: whether its POSTs reach the
\* manager; remotes: whether the runner deploys remotely; answers: what the
\* probed url answers
AgentWork(d, delivery, remotes, answers) ==
  \/ DaNext(d)
  \/ DaRmTmp(d)
  \/ DaCopy(d)
  \/ DaArchive(d)
  \/ DaSwap(d)
  \/ \E remote \in remotes : DaMirror(d, remote)
  \/ WrRead(d)
  \/ WrOpen(d)
  \/ WrWrite(d)
  \/ \E delivered \in delivery : DaPostDeployed(d, delivered)
  \/ \E observed \in answers : DaAccept(d, observed)
  \/ \E delivered \in delivery : DaPostFinal(d, delivered)
  \/ \E delivered \in delivery, gen \in FreshIds : DaFollowup(d, delivered, gen)

AgentStep(d, delivery, remotes, answers) ==
  \/ DaList(d)
  \/ AgentWork(d, delivery, remotes, answers)

\* One client and one deployment agent, one operation at a time, the
\* manager reachable.
DeployAcceptance == {<<>>, <<NoUrlProbe>>, <<NoUrlProbe, Probe200>>}
InitDeploy == \E acc \in DeployAcceptance : InitTask({"c1", "d1"}, TRUE, acc)

NextDeployWith(args) ==
  \/ Tick
  \/ \E v \in Versions : WriteSrc(IdA, v)
  \/ UpdateStatusRequest("c1", IdA, "completed", Bearer("tok"))
  \/ \E revision \in args : RollbackRequest("c1", IdA, revision, Bearer("tok"))
  \/ \E th \in {"c1", "d1"} : HandlerStep(th)
  \/ RollbackStep("c1")
  \/ AgentStep("d1", {TRUE}, {FALSE}, {200, 500})

NextDeploy == NextDeployWith(RollbackArgs)

SpecDeploy == InitDeploy /\ [][NextDeploy]_vars

\* ------------------------------------------------------------------ claims
\* the step is a request that client c sends
Sends(c) ==
  /\ nreq' = nreq + 1
  /\ pc[c] = "idle"
  /\ \A o \in Threads \ {c} : pc'[o] = pc[o] /\ resp'[o] = resp[o]

\* create_task answers 201 to c in this step
Created(c) == pc[c] = "ct_meta_write" /\ pc'[c] = "idle" /\ resp'[c].code = 201

\* non-empty, only letters, digits, '-' and '_'
ValidId(id) == id # <<>> /\ \A k \in 1..Len(id) : id[k] \in AlnumChars \cup {"-", "_"}

IsCreatedRecord(r, id) == r.code = 200 /\ r.id = id /\ r.status = "created"

\* C1 as stated: after a successful create_task(id, spec) with a valid id,
\* get_task(id) returns a record with that id and status 'created'.
C1_AsStated ==
  [][\A c \in Clients :
       Created(c) /\ ValidId(resp[c].req.id)
         => IsCreatedRecord(GetTaskIn(metaf', resp[c].req.id), resp[c].req.id)]_vars

\* C1, amended: after a successful create_task the record is found by
\* get_task under the id of the response, with that id and status 'created';
\* the id of the response is the id given unless the spec was taken as a
\* project manifest (whose slug then names the task).
C1_CreateThenGet ==
  [][\A c \in Clients :
       Created(c) /\ ValidId(resp[c].req.id)
         => /\ IsCreatedRecord(GetTaskIn(metaf', resp'[c].id), resp'[c].id)
            /\ ~loc[c].spec.project => resp'[c].id = resp[c].req.id]_vars

C1_Witness ==
  /\ resp["c1"].code = 201
  /\ resp["c1"].req.op = "create_task"
  /\ resp["c1"].req.id = IdA
  /\ get_task(IdA).code = 200
  /\ pc["c1"] = "idle"

Nested(content) == IF content = <<>> THEN 0 ELSE Len(content) - 1

\* the directories named 'current' under the deploy root of tree
CurrentDirs(tree) ==
  (IF tree.current = <<>> THEN 0 ELSE 1)
  + Nested(tree.current) + Nested(tree.current_tmp) + Nested(tree.restored_tmp)
  + Cardinality({p \in RevNames \X (1..(2 * MaxNow + 4)) :
                   p[2] <= Nested(tree.revs[p[1]])})

\* C4: in every reachable state, also between the steps of a deploy or of a
\* rollback, a task's deploy root holds at most one directory named
\* 'current'.
C4_AtMostOneCurrent == \A id \in AllIds : CurrentDirs(dep[id]) <= 1

\* C5: every content that was 'current' and was moved away is present,
\* unchanged, as the revision it was archived under; an archival in the
\* second of an earlier one neither overwrites nor joins that revision.
C5_RevisionsIntact ==
  \A id \in AllIds : \A e \in arch[id] : dep[id].revs[e.name] = e.content

\* the last n operations completed on the deploy tree of id carry the names
\* ops
LastOps(id, ops) ==
  /\ Len(oplog[id]) >= Len(ops)
  /\ \A k \in 1..Len(ops) :
       oplog[id][Len(oplog[id]) - Len(ops) + k].op = ops[k]

\* agent d has just renamed the staging directory into 'current', as the
\* second of two deploys in a row of one source snapshot
SecondDeployDone(d) ==
  /\ pc[d] = "da_mirror"
  /\ LastOps(loc[d].id, <<"deploy", "deploy">>)
  /\ LET log == oplog[loc[d].id]
     IN log[Len(log) - 1].content = log[Len(log)].content

\* C6: when one source snapshot has been deployed twice, 'current' holds
\* the source, and the second deploy has added exactly one revision, which
\* holds what 'current' held before it.
C6_DeployTwice ==
  \A d \in Agents :
    SecondDeployDone(d) =>
      LET id == loc[d].id
          added == RevList(dep[id]) \ loc[d].before
      IN /\ dep[id].current = <<srcf[id]>>
         /\ CurrentDirs(dep[id]) = 1
         /\ Cardinality(added) = 1
         /\ \A r \in added : dep[id].revs[r] = loc[d].prev

C6_Witness ==
  /\ SecondDeployDone("d1")
  /\ loc["d1"].prev = <<1>>
  /\ dep[IdA].current = <<1>>

\* client c has just been through the renames of a rollback without
\* revision argument that followed deploy(v1), deploy(v2)
RoundTripDone(c) ==
  /\ pc[c] = "rb_meta"
  /\ LastOps(loc[c].id, <<"deploy", "deploy", "rollback">>)
  /\ oplog[loc[c].id][Len(oplog[loc[c].id])].rev = NoRev

\* C7: after deploy(v1), deploy(v2) and a rollback that names no revision,
\* 'current' holds v1.
C7_RoundTrip ==
  \A c \in Clients :
    RoundTripDone(c) =>
      LET log == oplog[loc[c].id]
      IN dep[loc[c].id].current = log[Len(log) - 2].content

C7_Witness ==
  /\ RoundTripDone("c1")
  /\ oplog[IdA][Len(oplog[IdA]) - 2].content = <<1>>
  /\ oplog[IdA][Len(oplog[IdA]) - 1].content = <<2>>
  /\ dep[IdA].current = <<1>>

\* get_deploy_history(id): the list the endpoint returns (<<>> also where
\* it has no list to return)
get_deploy_history(id) == IF recf[id].kind = "json" THEN recf[id].list ELSE <<>>

\* the rollback of the round trip has answered and nothing runs
RoundTripAnswered(c, id) ==
  /\ \A th \in active : pc[th] \in Parked
  /\ resp[c].req.op = "rollback" /\ resp[c].req.id = id /\ resp[c].code = 200
  /\ LastOps(id, <<"deploy", "deploy", "rollback">>)
  /\ oplog[id][Len(oplog[id])].rev = NoRev

\* C8: after deploy(v1), deploy(v2), rollback() the history holds an entry
\* of each of the three operations, in the order in which they happened.
C8_HistoryHasAllThree ==
  \A c \in Clients, id \in AllIds :
    RoundTripAnswered(c, id) =>
      LET h == get_deploy_history(id)
      IN \E i, j, k \in 1..Len(h) :
           /\ i < j /\ j < k
           /\ h[i].op = "deploy" /\ h[j].op = "deploy" /\ h[k].op = "rollback"
           /\ h[i].timestamp <= h[j].timestamp
           /\ h[j].timestamp <= h[k].timestamp

\* --------------------------------------------------------------- two agents
\* Two deployment agents poll one workspace within one second, their steps
\* interleaved; the probed url answers 500.
InitAgents == InitTask({"d1", "d2"}, FALSE, <<Probe200>>)

NextAgents ==
  \/ \E d \in {"d1", "d2"} : HandlerStep(d)
  \/ \E d \in {"d1", "d2"} : AgentStep(d, {TRUE}, {FALSE}, {500})

SpecAgents == InitAgents /\ [][NextAgents]_vars

IsPrefix(s, t) == Len(s) <= Len(t) /\ \A k \in 1..Len(s) : s[k] = t[k]
NonDecreasing(h) == \A k \in 1..(Len(h) - 1) : h[k].timestamp <= h[k + 1].timestamp

\* C9: a task's record list only grows at its end and its timestamps never
\* decrease: every list the file held is a prefix of every list it holds
\* later, also after a read that could not parse the file and with two
\* agents writing.
C9_AppendOnly ==
  [][\A id \in AllIds :
       recf'[id].kind = "json" =>
         /\ IsPrefix(recf[id].last, recf'[id].list)
         /\ NonDecreasing(recf'[id].list)]_vars

\* ---------------------------------------------------------------- acceptance
\* the remediation tasks created for task id
Followups(id) == {i \in dirs : metaf[i].kind = "json" /\ specf[i].fixes = id}

\* record r tells of a probe that expected 200 and was answered 500
Expected200Got500(id, r) ==
  LET k == FirstUrlProbe(specf[id].acceptance)
  IN k # 0 /\ specf[id].acceptance[k].expect = 200 /\ r.code = 500

\* C10: when the first url probe of a deployed task expects 200 and the
\* target answers 500, check_acceptance returns ok = false, the status
\* becomes 'failed' and exactly one remediation task is created, however
\* many iterations of the agent follow (no client request intervening).
C10_OneRemediation ==
  nreq = 0 =>
    \A id \in dirs :
      LET h == get_deploy_history(id)
          failed == \E n \in 1..Len(h) : Expected200Got500(id, h[n])
      IN /\ \A n \in 1..Len(h) :
              Expected200Got500(id, h[n]) => h[n].verified = "false"
         /\ Cardinality(Followups(id)) <= 1
         /\ (failed /\ \A d \in active : pc[d] \in Parked) =>
              /\ metaf[id].status = "failed"
              /\ Cardinality(Followups(id)) = 1

C10_Witness ==
  /\ nreq = 0 /\ niter = MaxIterations
  /\ pc["d1"] = "da_sleep"
  /\ \E n \in 1..Len(get_deploy_history(IdA)) :
       /\ Expected200Got500(IdA, get_deploy_history(IdA)[n])
       /\ get_deploy_history(IdA)[n].verified = "false"
  /\ metaf[IdA].status = "failed"
  /\ Cardinality(Followups(IdA)) = 1

\* agent d has gone through the acceptance outcome of the task its record
\* names
OutcomePosted(d) == pc[d] = "da_next" /\ loc[d].rec.verified # "unset"

\* C11: when a task's spec has no acceptance probe with a url (the list is
\* empty or no entry has one), check_acceptance returns ok = true, the agent
\* sets the status to 'verified', and no remediation task is created.
C11_NoProbesVerified ==
  \A id \in dirs :
    FirstUrlProbe(specf[id].acceptance) = 0 =>
      /\ \A n \in 1..Len(get_deploy_history(id)) :
           get_deploy_history(id)[n].verified # "false"
      /\ Followups(id) = {}
      /\ \A d \in Agents :
           (OutcomePosted(d) /\ loc[d].rec.task = id) =>
             /\ loc[d].rec.verified = "true"
             /\ metaf[id].status = "verified"

C11_Witness ==
  /\ OutcomePosted("d1") /\ loc["d1"].rec.task = IdA
  /\ specf[IdA].acceptance = <<NoUrlProbe>>
  /\ get_deploy_history(IdA)[Len(get_deploy_history(IdA))].verified = "true"
  /\ metaf[IdA].status = "verified"
  /\ Followups(IdA) = {}

\* ------------------------------------------------------- the agent running
\* One deployment agent that keeps running its loop on the workspace of
\* InitTask, the manager reachable.
InitRun == \E acc \in DeployAcceptance : InitTask({"d1"}, TRUE, acc)

AgentRun == HandlerStep("d1") \/ AgentStep("d1", {TRUE}, {FALSE}, {200, 500})

NextRun == Tick \/ AgentRun

\* while True: the agent's process takes its next step
SpecRun == InitRun /\ [][NextRun]_vars /\ WF_vars(AgentRun)

\* task id is to be deployed: deploy is true, the acceptance list is empty,
\* src exists and the status is 'completed'
ReadyNoProbes(id) ==
  /\ id \in dirs
  /\ specf[id].kind = "yaml" /\ specf[id].deploy /\ specf[id].acceptance = <<>>
  /\ srcf[id] # 0
  /\ metaf[id].kind = "json" /\ metaf[id].status = "completed"

\* the last record of id has verified = true and the status is 'verified'
DeployedVerified(id) ==
  /\ get_deploy_history(id) # <<>>
  /\ get_deploy_history(id)[Len(get_deploy_history(id))].verified = "true"
  /\ metaf[id].kind = "json" /\ metaf[id].status = "verified"

\* C12: for a task with deploy = true and an empty acceptance list, once src
\* exists and the status is 'completed', the running agent eventually
\* leaves a last deployment record with verified = true and the status
\* 'verified'.
C12_EndToEnd == ReadyNoProbes(IdA) ~> DeployedVerified(IdA)

C12_Witness ==
  /\ specf[IdA].acceptance = <<>>
  /\ DeployedVerified(IdA)
  /\ pc["d1"] = "da_sleep"

\* ------------------------------------------------------------ status updates
\* One client posts statuses for the task IdA, for the unknown task IdB and
\* for the id 'a..', one request at a time.
\* datetime.utcnow() is read in microseconds: a request is handled at a
\* later reading than the stamps the store holds.
StatusInputs == {"", "in_progress", "completed", "bogus"}
ClockAdvanced ==
  \A id \in dirs :
    metaf[id].kind = "json" =>
      now > metaf[id].updated_at /\ now > metaf[id].created_at

InitStatus == InitTask({"c1"}, TRUE, <<>>)

NextStatus ==
  \/ Tick
  \/ \E id \in {IdA, IdB, IdDots}, st \in StatusInputs, headers \in Tokens :
       ClockAdvanced /\ UpdateStatusRequest("c1", id, st, headers)
  \/ UsOpen("c1")
  \/ UsWrite("c1")

SpecStatus == InitStatus /\ [][NextStatus]_vars

\* update_status has answered c with the record of a task
StatusAnswered(c) ==
  pc[c] = "idle" /\ resp[c].req.op = "update_status" /\ resp[c].code = 200

C14_StatusInSet ==
  \A id \in AllIds : metaf[id].kind = "json" => metaf[id].status \in Statuses

\* read_meta(task_dir) of the agents: None when the file is absent, the
\* record when it parses, and "raises" when json.load fails
read_meta(id) ==
  IF metaf[id].kind = "none" THEN "None"
  ELSE IF metaf[id].kind = "partial" THEN "raises" ELSE "record"

\* C15: a reader that runs while a write of meta.json is under way (the
\* API's get_task, an agent's read_meta) never finds an empty or partly
\* written record: at every instant the file holds the complete old record
\* or the complete new one.
C15_ReplaceOnWrite ==
  \A id \in AllIds :
    /\ read_meta(id) # "raises"
    /\ get_task(id).code # 500

\* ------------------------------------------------- a task deployed before
\* The workspace after deploy(v1) in second 0 and deploy(v2) in second 1,
\* both verified: 'current' holds v2 and revisions/<second 1> holds v1.
DeployedRecord(t, verified) ==
  [task |-> IdA, timestamp |-> t, path |-> "local", verified |-> verified,
   code |-> IF verified = "unset" THEN -1 ELSE 200,
   url |-> IF verified = "unset" THEN "" ELSE Probe200.url, op |-> "deploy"]
DeployedRecords ==
  <<DeployedRecord(0, "unset"), DeployedRecord(0, "true"),
    DeployedRecord(1, "unset"), DeployedRecord(1, "true")>>
DeployedTree ==
  [NoDeploy EXCEPT !.exists = TRUE, !.revdir = TRUE, !.current = <<2>>,
                   !.revs = [@ EXCEPT ![ArchiveName(1)] = <<1>>]]

InitDeployedWith(threads) ==
  InitWorkspace(threads, TRUE, <<Probe200>>, 1, "verified", 2,
                DeployedTree,
                [kind |-> "json", list |-> DeployedRecords,
                 last |-> DeployedRecords],
                <<[op |-> "deploy", content |-> <<1>>, rev |-> NoRev,
                   target |-> NoRev],
                  [op |-> "deploy", content |-> <<2>>, rev |-> NoRev,
                   target |-> NoRev]>>,
                {[name |-> ArchiveName(1), content |-> <<1>>, seq |-> 1]})

InitDeployed == InitDeployedWith({"c1", "d1"})

\* the rollback requests also name the path '../current'
NextRollback == NextDeployWith(RollbackArgs \cup {UpCurrent})

SpecRollback == InitDeployed /\ [][NextRollback]_vars

\* client c has been through the renames of a rollback without revision
\* argument
RolledBackToLast(c) == pc[c] = "rb_meta" /\ loc[c].arg = NoRev

\* the moves into revisions/ that came before the rollback of c began
MovedBefore(c) ==
  LET all == arch[loc[c].id]
  IN IF loc[c].prev = <<>> THEN all
     ELSE {e \in all : e.seq < Cardinality(all)}

\* the name under which 'current' was last archived before the rollback of c
LastArchived(c) ==
  (CHOOSE e \in MovedBefore(c) : \A o \in MovedBefore(c) : o.seq <= e.seq).name

\* C16: rollback without revision argument restores the revision archived
\* last, which is the greatest name in revisions/, and answers with that
\* name as restored_from.
C16_RestoresLatest ==
  \A c \in Clients :
    /\ RolledBackToLast(c) =>
         /\ \A r \in loc[c].before : r = loc[c].target \/ RevLess(r, loc[c].target)
         /\ loc[c].target \in loc[c].before
         /\ dep[loc[c].id].current = dep[loc[c].id].revs[loc[c].target]
         /\ MovedBefore(c) # {} => LastArchived(c) = loc[c].target
    /\ (pc[c] = "idle" /\ resp[c].req.op = "rollback" /\ resp[c].code = 200
        /\ LastOps(resp[c].req.id, <<"rollback">>)
        /\ oplog[resp[c].req.id][Len(oplog[resp[c].req.id])].rev = NoRev) =>
         resp[c].rev = oplog[resp[c].req.id][Len(oplog[resp[c].req.id])].target

\* the greatest name is restored, whatever the order of archival
RestoresGreatestName ==
  \A c \in Clients :
    RolledBackToLast(c) =>
      /\ \A r \in loc[c].before : r = loc[c].target \/ RevLess(r, loc[c].target)
      /\ dep[loc[c].id].current = dep[loc[c].id].revs[loc[c].target]

\* the step is a rollback request that c sends with a token that passes
RollbackSent(c) ==
  /\ pc[c] = "idle" /\ nreq' = nreq + 1 /\ srcf' = srcf
  /\ resp'[c].req.op = "rollback" /\ resp'[c].req.auth

\* C17: rollback answers 404 when the task has no deploy root, no
\* revisions directory, no revision, or when the revision it names is not
\* an entry of revisions/; 'current', revisions/ and the status are then
\* unchanged.
C17_RollbackNotFound ==
  [][\A c \in Clients :
       RollbackSent(c) =>
         LET tree == dep[resp'[c].req.id]
         IN IF pc'[c] = "rb_archive"
            THEN /\ tree.exists /\ tree.revdir /\ RevList(tree) # {}
                 /\ loc'[c].arg # NoRev => loc'[c].arg \in RevList(tree)
            ELSE /\ resp'[c].code = 404
                 /\ dep' = dep /\ metaf' = metaf]_vars

\* C18: a rollback that succeeds has archived the 'current' it found as a
\* revision with a _rollback name, has made 'current' a copy of the target
\* revision, which is still in revisions/, and sets the status to
\* 'rolled_back'.
C18_RollbackEffect ==
  \A c \in Clients :
    /\ pc[c] = "rb_meta" =>
         LET tree == dep[loc[c].id]
         IN /\ loc[c].prev # <<>> =>
                 \E r \in RevList(tree) :
                   r.sfx = "_rollback" /\ tree.revs[r] = loc[c].prev
            /\ loc[c].target \in RevList(tree)
            /\ tree.current = tree.revs[loc[c].target]
    /\ (pc[c] = "idle" /\ resp[c].req.op = "rollback" /\ resp[c].code = 200) =>
         metaf[resp[c].req.id].status = "rolled_back"

\* ------------------------------------------------------ the token check
\* the headers a request may carry: no token, the configured one or another,
\* as Bearer, under another scheme, or as X-Api-Token
AuthHeaders ==
  [authorization : {<<>>, <<"Bearer", "tok">>, <<"Bearer", "bad">>,
                    <<"Bearer", "">>, <<"Basic", "tok">>},
   x_api_token : {"", "tok", "bad"}]

\* a client alone with a deployed task and the five mutating endpoints
InitAuth == InitDeployedWith({"c1"})

NextAuth ==
  \/ \E headers \in AuthHeaders :
       \/ CreateTaskRequest("c1", IdB, PlainSpec(FALSE, <<>>), headers, Gen1)
       \/ \E body \in UploadBodies :
            UploadSecretsRequest("c1", IdA, body, headers)
       \/ UpdateStatusRequest("c1", IdA, "completed", headers)
       \/ TriggerDeployRequest("c1", IdA, headers)
       \/ RollbackRequest("c1", IdA, NoRev, headers)
  \/ HandlerStep("c1")
  \/ UpMeta("c1")
  \/ RollbackStep("c1")

SpecAuth == InitAuth /\ [][NextAuth]_vars

MutatingOps ==
  {"create_task", "upload_secrets", "update_status", "trigger_deploy",
   "rollback"}

\* the step is a request of c to a mutating endpoint
MutatingSent(c) ==
  /\ pc[c] = "idle" /\ nreq' = nreq + 1 /\ srcf' = srcf
  /\ resp'[c].req.op \in MutatingOps

\* the configured token is in neither header
NoCorrectToken(headers) ==
  /\ headers.authorization # <<"Bearer", apiToken>>
  /\ headers.x_api_token # apiToken

\* the configured token as 'Authorization: Bearer', or as 'X-Api-Token' in
\* a request without Authorization header
CorrectTokenGiven(headers) ==
  \/ headers.authorization = <<"Bearer", apiToken>>
  \/ headers.x_api_token = apiToken /\ headers.authorization = <<>>

RefusedWitness ==
  /\ resp["c1"].req.op = "rollback"
  /\ resp["c1"].req.headers = NoHeaders
  /\ resp["c1"].error = "AuthenticationError"

\* ------------------------------------------------------------ the secrets
\* the specs of the requests: with a deployment block that carries env
\* values and declares a secret, accepted by the schema or failing it
SecretSpecs ==
  {[PlainSpec(FALSE, <<>>) EXCEPT !.deployment = SomeDeployment,
                                  !.taskValid = v, !.failsAt = at] :
     v \in BOOLEAN, at \in {"field", "spec"}}

\* a client alone with one task and the endpoints that write or list
\* secrets and tasks
InitSecrets == InitTask({"c1"}, TRUE, <<>>)

NextSecrets ==
  \/ \E spec \in SecretSpecs :
       CreateTaskRequest("c1", IdB, spec, Bearer("tok"), Gen1)
  \/ \E id \in {IdA, IdB}, body \in UploadBodies :
       UploadSecretsRequest("c1", id, body, Bearer("tok"))
  \/ \E id \in {IdA, IdB}, op \in {"get_task", "list_task_secrets"} :
       GetRequest("c1", op, id)
  \/ GetRequest("c1", "list_tasks", NoId)
  \/ HandlerStep("c1")
  \/ UpMeta("c1")

SpecSecrets == InitSecrets /\ [][NextSecrets]_vars

\* what "val" stands for in either of two stores that differ only in the
\* contents of the secret files and in the env values
SecretValues == {"v1", "v2"}

\* the body of response r as the client reads it when the secret contents
\* are v
BodyWith(r, v) ==
  [code |-> r.code, error |-> r.error, id |-> r.id, status |-> r.status,
   rev |-> r.rev, files |-> r.files, tasks |-> r.tasks,
   echoed |-> {IF x = "val" THEN v ELSE x : x \in r.echoed}]

NoEchoButSchemaErrors ==
  \A c \in Clients :
    ~(resp[c].req.op = "create_task" /\ resp[c].error = "ValidationError")
      => \A v1, v2 \in SecretValues :
           BodyWith(resp[c], v1) = BodyWith(resp[c], v2)

\* secrets have been written and a response lists their names
SecretsListed ==
  /\ secf[IdA].files[EnvName] = "val"
  /\ resp["c1"].req.op = "list_task_secrets"
  /\ resp["c1"].files = {EnvName}

\* the step is an update_status request of c whose token passes
StatusSent(c) ==
  /\ pc[c] = "idle" /\ nreq' = nreq + 1 /\ srcf' = srcf
  /\ resp'[c].req.op = "update_status" /\ resp'[c].req.auth

\* the request is answered at once with the code and nothing is written
Refused(c, code) ==
  /\ pc'[c] = "idle" /\ resp'[c].code = code
  /\ metaf' = metaf

AgentCrashRun ==
  \/ HandlerStep("d1")
  \/ AgentStep("d1", {TRUE}, {FALSE}, {200, 500})
  \/ DaStart("d1")

NextCrash ==
  \/ Tick
  \/ UpdateStatusRequest("c1", IdA, "completed", Bearer("tok"))
  \/ HandlerStep("c1")
  \/ AgentCrashRun
  \/ DaCrash("d1")
  \/ DaSwapRaises("d1")

SpecCrash ==
  /\ InitDeployed /\ [][NextCrash]_vars
  /\ WF_vars(AgentCrashRun) /\ WF_vars(HandlerStep("c1"))

\* the step ends d's iteration between archive and rename
StoppedBeforeSwap(d) ==
  pc[d] = "da_swap" /\ pc'[d] \in {"da_down", "da_sleep"}

\* the content that was live when d read the task is a revision of its own
PrevIsRevision(d) ==
  loc[d].prev # <<>> =>
    \E r \in RevList(dep'[loc[d].id]) : dep'[loc[d].id].revs[r] = loc[d].prev

\* C22: when the agent stops between archiving the old 'current' and
\* renaming the staging directory, the content that was live is intact as
\* a revision, there is no 'current', and the status is unchanged and
\* still one the agent deploys from.
C22_CrashBeforeSwap ==
  [][\A d \in Agents :
       StoppedBeforeSwap(d) =>
         /\ PrevIsRevision(d)
         /\ dep'[loc[d].id].current = <<>>
         /\ metaf' = metaf
         /\ metaf[loc[d].id].status \in {"completed", "ready_for_deploy"}]_vars

\* the same without the claim on the revision
StoppedLeavesNoCurrent ==
  [][\A d \in Agents :
       StoppedBeforeSwap(d) =>
         /\ dep'[loc[d].id].current = <<>>
         /\ loc[d].prev # <<>> =>
              \E a \in arch'[loc[d].id] : a.content = loc[d].prev
         /\ metaf' = metaf
         /\ metaf[loc[d].id].status \in {"completed", "ready_for_deploy"}]_vars

\* a later run completes the deployment
CrashThenDeployed ==
  pc["d1"] = "da_down" ~> dep[IdA].current = <<srcf[IdA]>>

\* the deploys of id that the log holds (the log keeps three entries)
DeployCount(id) ==
  Cardinality({k \in 1..Len(oplog[id]) : oplog[id][k].op = "deploy"})

\* C23: each deploy of a task appends exactly one record to the task's
\* record list: while the agent is at rest the list of a task with n
\* deploys has n entries, and it never has more.
C23_OneRecordPerDeploy ==
  \A id \in dirs :
    (Len(oplog[id]) < 3 /\ recf[id].kind = "json") =>
      /\ Len(recf[id].list) <= DeployCount(id)
      /\ (\A d \in active \cap Agents : pc[d] = "da_sleep") =>
           Len(recf[id].list) = DeployCount(id)

\* what the code does: two records for each deploy
TwoRecordsPerDeploy ==
  \A id \in dirs :
    (Len(oplog[id]) < 3 /\ recf[id].kind = "json"
     /\ \A d \in active \cap Agents : pc[d] = "da_sleep") =>
      Len(recf[id].list) = 2 * DeployCount(id)

\* the edge table of the lifecycle: created -> in_progress -> {completed,
\* failed}; {completed, ready_for_deploy} -> deployed -> {verified, failed};
\* completed -> {tested, failed}; any state -> ready_for_deploy and any
\* state -> rolled_back
EdgeTable ==
  {<<"created", "in_progress">>, <<"in_progress", "completed">>,
   <<"in_progress", "failed">>, <<"completed", "deployed">>,
   <<"ready_for_deploy", "deployed">>, <<"deployed", "verified">>,
   <<"deployed", "failed">>, <<"completed", "tested">>,
   <<"completed", "failed">>}
    \cup {<<s, t>> : s \in Statuses, t \in {"ready_for_deploy", "rolled_back"}}

\* C24: an update_status request (none carries a force flag) that would
\* move a task along an edge that is not in the table is refused and leaves
\* the status as it was.
C24_TransitionsValidated ==
  [][\A c \in Clients :
       StatusSent(c) =>
         LET id == resp'[c].req.id
             new == resp'[c].req.status
         IN (metaf[id].kind = "json" /\ new # ""
             /\ <<metaf[id].status, new>> \notin EdgeTable) =>
              /\ pc'[c] = "idle" /\ resp'[c].code # 200
              /\ metaf' = metaf]_vars

\* ------------------------------------------- the agents on one workspace
\* the testing agent's iteration.  delivery: whether its POSTs reach the
\* manager; outcomes: what run_tests finds
TestWork(t, delivery, outcomes) ==
  \/ TaNext(t)
  \/ \E outcome \in outcomes : TaRun(t, outcome)
  \/ \E delivered \in delivery : TaPost(t, delivered)
  \/ TaRecord(t)

TestStep(t, delivery, outcomes) ==
  \/ TaList(t)
  \/ TestWork(t, delivery, outcomes)

\* The deployment agent and the testing agent poll the workspace of
\* InitTask, each in its own process, their steps interleaved; the coding
\* agent has posted 'completed' and finds no task in status 'created'.
InitPipeline == InitTask({"d1", "t1"}, FALSE, <<Probe200>>)

NextPipeline ==
  \/ Tick
  \/ \E th \in {"d1", "t1"} : HandlerStep(th)
  \/ AgentStep("d1", {TRUE}, {FALSE}, {200, 500})
  \/ TestStep("t1", {TRUE}, TestOutcomes)

SpecPipeline == InitPipeline /\ [][NextPipeline]_vars

Terminal == {"verified", "failed", "rolled_back"}

\* thread th, inside update_status, opens the meta.json of task id to write
\* another status than the one the file holds
Overwrites(th, id) ==
  /\ pc[th] = "us_open" /\ pc'[th] = "us_write"
  /\ loc[th].id = id
  /\ metaf[id].kind = "json"
  /\ loc[th].meta.status # metaf[id].status

\* C25: once the status of a task is verified, failed or rolled_back, no
\* agent's poll loop changes it, however the agents' steps interleave: the
\* status is overwritten by an update_status that a client called, never by
\* one that an agent called.
C25_TerminalKept ==
  [][\A th \in Agents \cup Testers \cup Coders, id \in AllIds :
       (metaf[id].kind = "json" /\ metaf[id].status \in Terminal)
         => ~Overwrites(th, id)]_vars

\* what the code does keep: an agent starts on a task only when it reads a
\* status of its trigger set, so never on a task it reads as terminal
StartsOnTrigger ==
  [][/\ \A d \in Agents :
          (pc[d] = "da_next" /\ pc'[d] = "da_rmtmp")
            => metaf[loc'[d].id].status \in {"completed", "ready_for_deploy"}
     /\ \A t \in Testers :
          (pc[t] = "ta_next" /\ pc'[t] = "ta_run")
            => metaf[loc'[t].id].status \in {"completed", "ready_for_test"}]_vars

\* ------------------------------------------------ the agent and its filters
\* One deployment agent polls a workspace that holds task IdA in any status
\* a client can have posted, with or without deploy: true, with or without
\* src, while a client marks the task failed or triggers its deploy; the
\* steps of the agent and of the client interleave.
PollStatuses == {"created", "completed", "ready_for_deploy", "verified"}

InitPoll ==
  \E status \in PollStatuses, deploy \in BOOLEAN, src \in {0, 1} :
    InitWorkspaceOf({"c1", "d1"}, FALSE, {IdA}, PlainSpec(deploy, <<Probe200>>), 0, status,
                    src, NoDeploy, NoRecords, <<>>, {})

NextPoll ==
  \/ Tick
  \/ UpdateStatusRequest("c1", IdA, "failed", Bearer("tok"))
  \/ TriggerDeployRequest("c1", IdA, Bearer("tok"))
  \/ \E th \in {"c1", "d1"} : HandlerStep(th)
  \/ AgentStep("d1", {TRUE}, {FALSE}, {200, 500})

SpecPoll == InitPoll /\ [][NextPoll]_vars

\* the step is one of agent d
Stepped(d) == pc'[d] # pc[d] \/ loc'[d] # loc[d]

\* the step changes the deploy directory, the deployment records or the
\* meta record of the existing task id (the meta record that create_task
\* is writing for a follow-up task is that of a new task)
Touched(id) ==
  \/ dep'[id] # dep[id]
  \/ recf'[id] # recf[id]
  \/ (metaf[id].kind = "json" /\ metaf'[id] # metaf[id])
  \/ (metaf[id].kind = "partial" /\ metaf'[id] # metaf[id] /\ specf[id].fixes = NoId)

\* in this step agent d has read task id and goes on to deploy it
Accepts(d, id) == pc[d] = "da_next" /\ pc'[d] = "da_rmtmp" /\ loc'[d].id = id

\* agent d is deploying task id, which it accepted before
Deploying(d, id) == pc[d] \notin {"da_sleep", "da_next", "da_down"} /\ loc[d].id = id

\* C26: the deployment agent changes the deploy directory, the deployment
\* records or the status of a task only for a task it has read with status
\* 'completed' or 'ready_for_deploy', deploy: true in the spec and src
\* present; a task it has read otherwise is left as it is.
C26_ActsOnlyOnDeployable ==
  [][\A d \in Agents, id \in AllIds :
       /\ Accepts(d, id) =>
            /\ metaf[id].kind = "json"
            /\ metaf[id].status \in {"completed", "ready_for_deploy"}
            /\ specf[id].kind = "yaml" /\ specf[id].deploy
            /\ srcf[id] # 0
       /\ (Stepped(d) /\ Touched(id)) => (Accepts(d, id) \/ Deploying(d, id))]_vars

\* the agent has been through an iteration in which task IdA, with a
\* status of the trigger set and deploy: true, had no src: nothing is
\* deployed and the status is as it was
C26_Witness ==
  /\ pc["d1"] = "da_sleep" /\ loc["d1"].sleepAt # NoTime
  /\ nreq = 0
  /\ metaf[IdA].status = "ready_for_deploy"
  /\ specf[IdA].deploy /\ srcf[IdA] = 0
  /\ dep[IdA] = NoDeploy /\ recf[IdA] = NoRecords

\* the agent has deployed a task that met the three conditions
DeployedWitness ==
  /\ pc["d1"] = "da_sleep" /\ loc["d1"].sleepAt # NoTime
  /\ dep[IdA].current # <<>>
  /\ metaf[IdA].kind = "json" /\ metaf[IdA].status = "verified"

\* --------------------------------------------------- the coding agent runs
\* The coding agent polls a workspace in which create_task has stored
\* task IdA, in status 'created'.  Its posts may not reach the manager, the
\* filesystem may refuse the scaffold, the push may fail; a client re-posts
\* status 'created' for IdA while the agent runs, so that the manager may
\* answer the agent with an error (500, meta.json being rewritten); a
\* termination signal may come at any time.
InitCoding ==
  InitWorkspaceOf({"c1", "g1"}, FALSE, {IdA}, PlainSpec(TRUE, <<>>), 0,
                  "created", 0, NoDeploy, NoRecords, <<>>, {})

\* update_status, after its checks, in the thread of its caller
StatusStep(th) == UsOpen(th) \/ UsWrite(th)

CodingRun ==
  \/ StatusStep("g1")
  \/ CodeStep("g1", BOOLEAN, BOOLEAN, BOOLEAN)

NextCoding ==
  \/ Tick
  \/ UpdateStatusRequest("c1", IdA, "created", Bearer("tok"))
  \/ StatusStep("c1")
  \/ Signal("g1")
  \/ CodingRun

SpecCoding == InitCoding /\ [][NextCoding]_vars

\* in this step the coding agent sends the status 'failed' for its task
PostsFailed(g) == pc[g] = "ca_except" /\ pc'[g] \in {"us_open", "ca_failed"}

\* C27: in the coding agent a network or external-service failure while a
\* task is processed (the manager unreachable, the manager answering with
\* an error, the push failing) never makes the agent set the status of
\* that task to 'failed': 'failed' is posted only after a failure of the
\* task's own processing, and the status is not 'failed' after an attempt
\* that a network failure ended.
C27_NetworkNotFailed ==
  [][\A g \in Coders :
       /\ PostsFailed(g) => loc[g].info \notin {"unreachable", "answer"}
       /\ (pc[g] = "ca_except" /\ pc'[g] # "ca_except"
             /\ loc[g].info \in {"unreachable", "answer"})
            => /\ pc'[g] = "ca_next"
               /\ metaf'[loc[g].id] = metaf[loc[g].id]
       /\ (pc[g] = "ca_pr" /\ pc'[g] # "ca_pr") => pc'[g] = "ca_finish"]_vars

\* the agent is through with an attempt that a failed post ended, and the
\* status of the task is not 'failed'
C27_Witness ==
  /\ pc["g1"] = "ca_next"
  /\ loc["g1"].info \in {"unreachable", "answer"}
  /\ metaf[loc["g1"].id].kind = "json"
  /\ metaf[loc["g1"].id].status # "failed"

\* the manager has answered a post of the agent with an error
AnswerWitness == pc["g1"] = "ca_next" /\ loc["g1"].info = "answer"

\* a failure of the scaffold does set 'failed'
DiskFailedWitness ==
  /\ pc["g1"] = "ca_next" /\ loc["g1"].info = "disk"
  /\ metaf[loc["g1"].id].kind = "json"
  /\ metaf[loc["g1"].id].status = "failed"

\* the coding agent is through with an attempt on a task that a failed
\* post (no answer, or an error answer) ended
Interrupted(g) ==
  /\ pc[g] = "ca_next"
  /\ loc[g].info \in {"unreachable", "answer"}
  /\ metaf[loc[g].id].kind = "json"

\* C28: after a transient failure has interrupted the coding agent's
\* processing of a task, the status of the task is the one the agent read
\* before the attempt ('created'), so that the task is still in the
\* trigger set and is taken again in a later iteration.
C28_StatusAsBefore ==
  \A g \in Coders :
    Interrupted(g) => metaf[loc[g].id].status = loc[g].status

\* what the code keeps: after an interrupted attempt the status is the one
\* read before it or 'in_progress', which the agent posted first and which
\* is not in its trigger set
InterruptedLeavesInProgress ==
  \A g \in Coders :
    Interrupted(g) => metaf[loc[g].id].status \in {loc[g].status, "in_progress"}

\* ------------------------------------------------ a task that keeps failing
\* One deployment agent keeps polling a workspace with the tasks IdA and
\* IdB, both completed and to be deployed.  A client posts a status for IdA;
\* update_status truncates meta.json and may never get to write it (the
\* manager's worker is killed, the disk is full): no fairness for the client.
\* The probed url answers 500.  The agent's iterations are not counted: its
\* loop does not end, and all of it is within one second of the clock.
InitStarve ==
  InitWorkspaceOf({"c1", "d1"}, FALSE, {IdA, IdB}, PlainSpec(TRUE, <<Probe200>>),
                  0, "completed", 1, NoDeploy, NoRecords, <<>>, {})

StarveRun ==
  \/ HandlerStep("d1")
  \/ DaListOn("d1", FALSE)
  \/ AgentWork("d1", {TRUE}, {FALSE}, {500})

NextStarve ==
  \/ UpdateStatusRequest("c1", IdA, "completed", Bearer("tok"))
  \/ StatusStep("c1")
  \/ StarveRun

SpecStarve ==
  /\ InitStarve /\ [][NextStarve]_vars
  /\ WF_vars(StarveRun)

\* C29: an exception raised while the agent processes one task does not
\* keep it from processing the others: task IdB, completed and to be
\* deployed, is deployed in the same or a later iteration, also when
\* reading task IdA raises in every iteration.
C29_OthersProcessed == Deployable(IdB) ~> (dep[IdB].current # <<>>)

\* as long as reading IdA does not raise, IdB is deployed
ProcessedWhenNoneRaises ==
  ([](metaf[IdA].kind # "partial")) => C29_OthersProcessed

\* ------------------------------------------------- the coding agent stops
\* The coding agent polls a workspace with the tasks IdA and IdB, both in
\* status 'created'; a termination signal comes at any time.  Its posts
\* may not reach the manager, the filesystem may refuse the scaffold, the
\* push may fail.
InitShutdown ==
  InitWorkspaceOf({"g1"}, FALSE, {IdA, IdB}, PlainSpec(TRUE, <<>>), 0,
                  "created", 0, NoDeploy, NoRecords, <<>>, {})

NextShutdown == Tick \/ Signal("g1") \/ CodingRun

\* the agent's process keeps taking steps and the clock advances
SpecShutdown ==
  /\ InitShutdown /\ [][NextShutdown]_vars
  /\ WF_vars(CodingRun) /\ WF_vars(Tick)

\* where the coding agent stands while it processes a task
TaskSteps ==
  {"ca_begin", "ca_begun", "ca_scaffold", "ca_pr", "ca_finish", "ca_finished",
   "ca_except", "ca_failed", "us_open", "us_write"}

\* in this step the coding agent ends the processing of its task
TaskEnds(g) == pc[g] \in TaskSteps /\ pc'[g] = "ca_next"

\* C30 as stated: after the signal has set the flag, the task that is
\* being processed runs to its end and its status 'completed' or 'failed'
\* is written.
C30_AsStated ==
  [][\A g \in Coders :
       (shutdown_requested /\ TaskEnds(g))
         => metaf'[loc[g].id].status \in {"completed", "failed"}]_vars

\* C30, amended: after the signal has set the flag, the task that is being
\* processed runs to its end, which is the answer to its post of
\* 'completed' or of 'failed', written by then, or a post that failed, the
\* status left as the last accepted post made it; no further task is
\* started; and the loop terminates.
C30_Cooperative ==
  /\ [][\A g \in Coders :
          /\ (shutdown_requested /\ pc[g] \in TaskSteps)
               => pc'[g] \in TaskSteps \cup {"ca_next"}
          /\ (shutdown_requested /\ TaskEnds(g)) =>
               \/ /\ pc[g] = "ca_finished"
                  /\ metaf[loc[g].id].status = "completed"
               \/ /\ pc[g] = "ca_failed"
                  /\ metaf[loc[g].id].status = "failed"
               \/ /\ pc[g] = "ca_except"
                  /\ metaf'[loc[g].id].status \in {"created", "in_progress"}
          /\ shutdown_requested => ~(pc[g] = "ca_next" /\ pc'[g] = "ca_begin")]_vars
  /\ \A g \in Coders : (g \in active /\ shutdown_requested) ~> (pc[g] = "ca_exit")

\* the flag is set while the agent, at work on a task, has had its
\* 'completed' accepted; the other task is still in status 'created'
C30_Witness ==
  /\ shutdown_requested
  /\ pc["g1"] = "ca_finished" /\ resp["g1"].code = 200
  /\ metaf[loc["g1"].id].status = "completed"
  /\ \E id \in {IdA, IdB} : metaf[id].status = "created"

\* the agent has exited and left a task in status 'created'
ExitedWitness ==
  /\ pc["g1"] = "ca_exit"
  /\ \E id \in {IdA, IdB} : metaf[id].status = "completed"
  /\ \E id \in {IdA, IdB} : metaf[id].status = "created"

\* ------------------------------------------- two agents deploy one task
\* agent d is between the makedirs of line 123 and the rename of line 137
\* for task id
Staging(d, id) ==
  /\ pc[d] \in {"da_rmtmp", "da_copy", "da_archive", "da_swap"}
  /\ loc[d].id = id

\* C31: when two deployment agents have taken up the same task, then once
\* neither is between staging and swap the deploy root is as one or two
\* deploys in a row leave it: one 'current' that is the copy of src, every
\* content that was 'current' before kept whole as a revision, and no agent
\* has given up leaving the task without 'current'.
C31_ConcurrentDeploys ==
  \A id \in AllIds :
    (dep[id].exists /\ \A d \in Agents : ~Staging(d, id))
      => /\ dep[id].current = <<srcf[id]>>
         /\ CurrentDirs(dep[id]) = 1
         /\ \A e \in arch[id] : dep[id].revs[e.name] = e.content

\* an agent deploying alone leaves 'current' as the copy of src
DeployAloneLeavesCurrent ==
  \A id \in AllIds :
    (dep[id].exists /\ \A d \in Agents : ~Staging(d, id))
      => dep[id].current = <<srcf[id]>>

\* ------------------------------------------------------ acceptance probes
\* One deployment agent deploys a task whose acceptance list is any list of
\* up to MaxProbes probes; the probed address answers 200 or 500, or the
\* request raises (0).
Probes == {NoUrlProbe, Probe200, Probe500, ProbeDefault, ProbeV500}
ProbeLists == UNION {[1..n -> Probes] : n \in 0..MaxProbes}

InitAccept == \E acc \in ProbeLists : InitTask({"d1"}, TRUE, acc)

NextAccept ==
  \/ Tick
  \/ HandlerStep("d1")
  \/ AgentStep("d1", {TRUE}, {FALSE}, {0, 200, 500})

SpecAccept == InitAccept /\ [][NextAccept]_vars

\* agent d has the outcome of check_acceptance for a list with a probe that
\* has a url
Decided(d) ==
  /\ loc[d].rec.verified \in {"true", "false"}
  /\ FirstUrlProbe(loc[d].spec.acceptance) # 0

\* C32: the outcome of check_acceptance is that of the first probe with a
\* url alone: ok is true exactly when the observed code is the probe's
\* expected code (200 when it gives none), the record holds the probe's url
\* and the observed code (0: an error text), and the probes after it do not
\* count.
C32_FirstProbeDecides ==
  \A d \in Agents :
    Decided(d) =>
      LET acceptance == loc[d].spec.acceptance
          a == acceptance[FirstUrlProbe(acceptance)]
          info == loc[d].rec
      IN /\ \A j \in 1..(FirstUrlProbe(acceptance) - 1) : acceptance[j].url = ""
         /\ (info.verified = "true")
              <=> (info.code = (IF a.expect = NoExpect THEN 200 ELSE a.expect))
         /\ info.url = a.url
         /\ info.code \in {0, 200, 500}

\* the first probe with a url expects 500 and gets it, a later one expects
\* 200: the task is verified
C32_Witness ==
  /\ Decided("d1")
  /\ loc["d1"].spec.acceptance = <<ProbeV500, Probe200>>
  /\ loc["d1"].rec.verified = "true" /\ loc["d1"].rec.code = 500
  /\ loc["d1"].rec.url = "v"

\* a probe without 'should_respond' fails on 500, with the url and the code
\* in the record
DefaultExpectWitness ==
  /\ Decided("d1")
  /\ loc["d1"].spec.acceptance = <<NoUrlProbe, ProbeDefault>>
  /\ loc["d1"].rec.verified = "false" /\ loc["d1"].rec.code = 500
  /\ loc["d1"].rec.url = "u"
  /\ pc["d1"] = "da_followup"

\* ------------------------------------------------- claim first, then work
\* the statuses on which each agent takes a task up
TriggerSet(th) ==
  IF th \in Agents THEN {"completed", "ready_for_deploy"}
  ELSE IF th \in Testers THEN {"completed", "ready_for_test"}
  ELSE {"created"}

\* thread th does the work of its task in this step: the deployment agent
\* stages, archives or swaps, the testing agent runs the tests, the coding
\* agent scaffolds
Works(th) ==
  \/ th \in Agents /\ pc[th] \in {"da_copy", "da_archive", "da_swap"}
                   /\ pc'[th] \notin {pc[th], "da_sleep", "da_down"}
  \/ th \in Testers /\ pc[th] = "ta_run" /\ pc'[th] = "ta_post"
  \/ th \in Coders /\ pc[th] = "ca_scaffold" /\ pc'[th] = "ca_pr"

\* C33: an agent works on a task only after the task's status has been
\* moved out of the agent's trigger set (to an in-progress status): no step
\* of an agent's work is taken while the status of its task is in the set.
C33_ClaimedBeforeWork ==
  [][\A th \in Threads :
       Works(th) => metaf[loc[th].id].status \notin TriggerSet(th)]_vars

\* the coding agent scaffolds only once its 'in_progress' post was answered
\* with success
CodingClaimsFirst ==
  [][\A g \in Coders :
       Works(g) => resp[g].req.status = "in_progress" /\ resp[g].code = 200]_vars

\* ------------------------------------------------ two requests for one id
\* Two clients post create_task for the id IdA, each with its own spec; the
\* manager handles the requests in two threads (or two workers), the steps
\* of the handlers interleaved.
RaceSpecs == {PlainSpec(FALSE, <<>>), PlainSpec(TRUE, <<>>)}

InitRace ==
  /\ InitWith({"c1", "c2"}, FALSE)
  /\ apiToken = "tok"
  /\ projectSchema = TRUE
  /\ taskSchema = TRUE

CreateStep(th) ==
  \/ CtMkdir(th)
  \/ CtSpec(th)
  \/ CtSecrets(th)
  \/ CtMetaOpen(th)
  \/ CtMetaWrite(th)

NextRace ==
  \/ Tick
  \/ \E c \in {"c1", "c2"}, spec \in RaceSpecs :
       CreateTaskRequest(c, IdA, spec, Bearer("tok"), Gen1)
  \/ \E c \in {"c1", "c2"} : CreateStep(c)

SpecRace == InitRace /\ [][NextRace]_vars

\* client c has the answer 201 to its create_task for id
CreatedAs(c, id) ==
  /\ pc[c] = "idle" /\ resp[c].req.op = "create_task"
  /\ resp[c].req.id = id /\ resp[c].code = 201

\* C34: of two create_task requests for one id handled concurrently at most
\* one succeeds: two clients never both hold a 201 for the same id.
C34_OneCreateSucceeds ==
  \A id \in AllIds : \A c, e \in Clients :
    (CreatedAs(c, id) /\ CreatedAs(e, id)) => c = e

\* handled one after the other, the second request is refused
OneSucceedsInTurn ==
  solo => C34_OneCreateSucceeds

\* --------------------------------------------- create_task and the store
\* thread th takes the step of create_task that is at label
CtAt(th, label) == pc[th] = label /\ pc'[th] # label

\* C35: create_task writes spec.yaml and meta.json only for an id that has
\* none yet, also when the slug of a project manifest has become the id, and
\* no task directory ever goes away.
C35_CreateKeepsExisting ==
  [][/\ \A th \in Threads :
          /\ CtAt(th, "ct_spec") => specf[loc[th].id].kind = "none"
          /\ CtAt(th, "ct_meta_open") => metaf[loc[th].id].kind = "none"
     /\ dirs \subseteq dirs']_vars

\* requests that are stored under the id they came with (or under the
\* generated one) replace nothing
KeepsExistingWithoutSlug ==
  [][\A th \in Threads :
       ~loc[th].spec.project =>
         /\ CtAt(th, "ct_spec") => specf[loc[th].id].kind = "none"
         /\ CtAt(th, "ct_meta_open") => metaf[loc[th].id].kind = "none"]_vars

\* ------------------------------------------- completed, tested, deployed?
\* The deployment agent and the testing agent keep polling the workspace of
\* InitTask, each in its own process that keeps taking steps; their loops
\* do not end, the manager is reachable, and the task's tests pass or it
\* has none.
InitFair == InitTask({"d1", "t1"}, FALSE, <<Probe200>>)

DeployRun ==
  \/ StatusStep("d1")
  \/ CreateStep("d1")
  \/ DaListOn("d1", FALSE)
  \/ AgentWork("d1", {TRUE}, {FALSE}, {200, 500})

TestRun ==
  \/ StatusStep("t1")
  \/ TaListOn("t1", FALSE)
  \/ TestWork("t1", {TRUE}, {"no_tests", "pass"})

NextFair == DeployRun \/ TestRun

SpecFair ==
  /\ InitFair /\ [][NextFair]_vars
  /\ WF_vars(DeployRun) /\ WF_vars(TestRun)

\* task id has deploy: true, a src directory and the status 'completed'
CompletedToDeploy(id) ==
  /\ specf[id].kind = "yaml" /\ specf[id].deploy
  /\ srcf[id] # 0
  /\ metaf[id].kind = "json" /\ metaf[id].status = "completed"

\* C36: with every agent scheduled fairly, a task with deploy: true that is
\* 'completed' and has src is eventually deployed: a deployment record is
\* written for it, whatever the testing agent does with the task meanwhile.
C36_EventuallyDeployed ==
  \A id \in {IdA} : CompletedToDeploy(id) ~> (recf[id].list # <<>>)

\* as long as the status stays 'completed' the task is deployed
DeployedIfStillCompleted ==
  \A id \in {IdA} :
    CompletedToDeploy(id) ~> (recf[id].list # <<>> \/ ~CompletedToDeploy(id))

FrameBodies == {[env |-> TRUE, files |-> {}], [env |-> FALSE, files |-> {"key"}]}

InitFrame ==
  \E one \in BOOLEAN :
    InitWorkspaceOf({"c1", "c2"}, one, {IdA}, PlainSpec(TRUE, <<>>), 0, "created",
                    0, NoDeploy, NoRecords, <<>>, {})

NextFrame ==
  \/ Tick
  \/ UpdateStatusRequest("c1", IdA, "completed", Bearer("tok"))
  \/ TriggerDeployRequest("c1", IdA, Bearer("tok"))
  \/ \E body \in FrameBodies : UploadSecretsRequest("c2", IdA, body, Bearer("tok"))
  \/ UpMeta("c2")
  \/ \E c \in {"c1", "c2"} : StatusStep(c)

SpecFrame == InitFrame /\ [][NextFrame]_vars

StatusOps == {"update_status", "trigger_deploy", "rollback"}

\* client c has the answer to its last request, of one of the operations
\* ops, with the status code code
Answered(c, ops, code) ==
  pc[c] = "idle" /\ resp[c].req.op \in ops /\ resp[c].code = code

\* C38: a status change keeps id, title, created_at, secrets and
\* secret_files of the meta record, and an upload of secrets keeps the
\* status, also when the two interleave: once both are answered and
\* meta.json is whole, it has the fields the task was created with, the
\* files of the last upload answered and the status of the last status
\* change answered.
C38_MetaChangesKept ==
  \A id \in dirs :
    metaf[id].kind = "json" =>
      /\ metaf[id].id = id /\ metaf[id].title = "T" /\ metaf[id].created_at = 0
      /\ \A c \in Clients :
           (Answered(c, {"upload_secrets"}, 201) /\ resp[c].req.id = id)
             => /\ metaf[id].secrets
                /\ resp[c].files \subseteq metaf[id].secret_files
      /\ \A c \in Clients :
           (Answered(c, StatusOps, 200) /\ resp[c].req.id = id)
             => metaf[id].status = resp[c].status

\* with the requests handled one at a time nothing is lost
MetaChangesKeptInTurn == solo => C38_MetaChangesKept

\* ------------------------------------------- the revision a rollback names
\* client c gets the answer to its rollback in this step
RollbackEnds(c) ==
  /\ pc[c] # "idle" /\ pc'[c] = "idle"
  /\ resp[c].req.op = "rollback"

\* C39: a rollback goes on only with a revision that is an entry of
\* revisions/ (a value that resolves elsewhere, as '../current', is answered
\* 404), and no rollback, answered with success or with an error, ends
\* with the task having no 'current' when it had one at the request.
C39_RevisionInsideRevisions ==
  [][\A c \in Clients :
       /\ (RollbackSent(c) /\ pc'[c] = "rb_archive")
            => loc'[c].target \in RevList(dep[loc'[c].id])
       /\ (RollbackEnds(c) /\ loc[c].prev # <<>>)
            => dep'[loc[c].id].current # <<>>]_vars

\* a rollback that names an entry of revisions/, or none, leaves a 'current'
NamedRevisionLeavesCurrent ==
  [][\A c \in Clients :
       (RollbackEnds(c) /\ loc[c].prev # <<>> /\ loc[c].arg # UpCurrent)
         => dep'[loc[c].id].current # <<>>]_vars

\* ------------------------------------------- rollback and deploy together
\* Task IdA is deployed as in InitDeployed and is 'completed' again, with a
\* new src; the deployment agent polls while a client asks for rollbacks,
\* the steps of the agent and of the manager's handler interleaved.  The
\* probed url answers 500.
InitMix ==
  InitWorkspace({"c1", "d1"}, FALSE, <<Probe200>>, 1, "completed", 1,
                DeployedTree,
                [kind |-> "json", list |-> DeployedRecords,
                 last |-> DeployedRecords],
                <<[op |-> "deploy", content |-> <<1>>, rev |-> NoRev,
                   target |-> NoRev],
                  [op |-> "deploy", content |-> <<2>>, rev |-> NoRev,
                   target |-> NoRev]>>,
                {[name |-> ArchiveName(1), content |-> <<1>>, seq |-> 1]})

NextMix ==
  \/ Tick
  \/ RollbackRequest("c1", IdA, NoRev, Bearer("tok"))
  \/ StatusStep("c1")
  \/ RollbackStep("c1")
  \/ HandlerStep("d1")
  \/ AgentStep("d1", {TRUE}, {FALSE}, {500})

SpecMix == InitMix /\ [][NextMix]_vars

\* C40: also when a rollback and a deploy of one task interleave, a
\* 'current' directory goes away only by being moved to revisions/: every
\* step that takes a 'current' away archives the content it had.
C40_CurrentNeverDeleted ==
  [][\A id \in AllIds :
       (dep[id].current # <<>> /\ dep'[id].current # dep[id].current)
         => \E e \in arch'[id] \ arch[id] : e.content = dep[id].current]_vars
====
